---- MODULE Spec2Model ----
\* fluxo_db SQL front end: Lexer (src/lexer/lexer.cpp), Parser (src/parser/parser*.cpp)
\* and the AST the parser builds (src/ast/*.h), as a state machine over the
\* Lexer's and the Parser's fields.
EXTENDS Integers, Sequences, FiniteSets, TLC

\* ------------------------------------------------------------------ bounds
\* longest character string enumerated exhaustively for the Lexer
MaxLen == 4
\* NextToken calls a client may still make once the input is exhausted
MaxExtraCalls == 2
\* operators in a chain x1 op1 x2 ... written without parentheses
MaxChainOps == 3
\* operators in an expression written with parentheses
MaxTreeOps == 2
\* projections and table names of a SELECT statement
MaxProjections == 2
MaxTables == 2
\* words after SELECT when every sequence of words is tried
MaxTail == 4
MaxOptions == 2
MaxColumns == 2
MaxRows == 2
MaxWords == 4
MaxNames == 2
MaxContinuation == 3
MaxStatements == 3
\* operands of the expressions written with literals of every kind
MaxLiterals == 3
\* operators written in a row between operands
MaxOperators == 2
\* unrecognised characters written into a text of statements
MaxIllegal == 1
\* options written after CREATE ROLE r WITH
MaxRoleOptions == 2
\* elements of a CREATE INDEX list, options of a CREATE DATABASE list, events
\* of a CREATE TRIGGER
MaxIndexElements == 2
MaxDatabaseOptions == 2
MaxTriggerEvents == 2
\* operators of the chains handed to parse() one loop step at a time
MaxTerminationOps == 1
\* calls of Catalog::create_table on one Catalog
MaxCatalogCalls == 3

\* ------------------------------------------------------------- characters
\* A character is a one-character string; text is a sequence of characters.
\* NUL is the byte 0 the Lexer uses as its end-of-input sentinel.
NUL == "NUL"

UpperLetters == <<"A","B","C","D","E","F","G","H","I","J","K","L","M",
                  "N","O","P","Q","R","S","T","U","V","W","X","Y","Z">>
LowerLetters == <<"a","b","c","d","e","f","g","h","i","j","k","l","m",
                  "n","o","p","q","r","s","t","u","v","w","x","y","z">>
DigitChars == <<"0","1","2","3","4","5","6","7","8","9">>

Range(s) == { s[i] : i \in DOMAIN s }

isalpha(c) == c \in Range(UpperLetters) \cup Range(LowerLetters)
isdigit(c) == c \in Range(DigitChars)

toupper(c) ==
    IF c \in Range(LowerLetters)
    THEN UpperLetters[CHOOSE i \in DOMAIN LowerLetters : LowerLetters[i] = c]
    ELSE c

\* std::string::substr(pos, n) throws std::out_of_range when pos > size()
substr_throws(s, pos) == pos > Len(s)

\* std::string::substr(pos, n): n characters from 0-based pos, clipped to the end
substr(s, pos, n) ==
    LET last == IF pos + n > Len(s) THEN Len(s) ELSE pos + n
    IN  SubSeq(s, pos + 1, last)

\* --------------------------------------------------------------- keywords
keywords ==
    (<<"S","E","L","E","C","T">> :> "SELECT")
    @@ (<<"I","N","S","E","R","T">> :> "INSERT")
    @@ (<<"I","N","T","O">> :> "INTO")
    @@ (<<"V","A","L","U","E","S">> :> "VALUES")
    @@ (<<"F","R","O","M">> :> "FROM")
    @@ (<<"W","H","E","R","E">> :> "WHERE")
    @@ (<<"C","R","E","A","T","E">> :> "CREATE")
    @@ (<<"T","A","B","L","E">> :> "TABLE")
    @@ (<<"D","R","O","P">> :> "DROP")
    @@ (<<"D","E","L","E","T","E">> :> "DELETE")
    @@ (<<"U","P","D","A","T","E">> :> "UPDATE")
    @@ (<<"S","E","T">> :> "SET")
    @@ (<<"P","R","I","M","A","R","Y">> :> "PRIMARY")
    @@ (<<"K","E","Y">> :> "KEY")
    @@ (<<"N","O","T">> :> "NOT")
    @@ (<<"U","N","I","Q","U","E">> :> "UNIQUE")
    @@ (<<"I","F">> :> "IF")
    @@ (<<"E","X","I","S","T","S">> :> "EXISTS")
    @@ (<<"C","A","S","C","A","D","E">> :> "CASCADE")
    @@ (<<"R","E","S","T","R","I","C","T">> :> "RESTRICT")
    @@ (<<"O","N","L","Y">> :> "ONLY")
    @@ (<<"R","E","N","A","M","E">> :> "RENAME")
    @@ (<<"C","O","N","S","T","R","A","I","N","T">> :> "CONSTRAINT")
    @@ (<<"A","L","T","E","R">> :> "ALTER")
    @@ (<<"A","T","T","A","C","H">> :> "ATTACH")
    @@ (<<"D","E","T","A","C","H">> :> "DETACH")
    @@ (<<"O","W","N","E","D">> :> "OWNED")
    @@ (<<"F","O","R">> :> "FOR")
    @@ (<<"D","E","F","A","U","L","T">> :> "DEFAULT")
    @@ (<<"C","O","L","U","M","N">> :> "COLUMN")
    @@ (<<"T","O">> :> "TO")
    @@ (<<"S","C","H","E","M","A">> :> "SCHEMA")
    @@ (<<"O","W","N","E","R">> :> "OWNER")
    @@ (<<"A","D","D">> :> "ADD")
    @@ (<<"T","Y","P","E">> :> "TYPE")
    @@ (<<"U","S","I","N","G">> :> "USING")
    @@ (<<"C","O","L","L","A","T","E">> :> "COLLATE")
    @@ (<<"D","A","T","A","B","A","S","E">> :> "DATABASE")
    @@ (<<"V","I","E","W">> :> "VIEW")
    @@ (<<"I","N","D","E","X">> :> "INDEX")
    @@ (<<"T","R","I","G","G","E","R">> :> "TRIGGER")
    @@ (<<"C","O","L","L","A","T","I","O","N">> :> "COLLATION")
    @@ (<<"U","S","E","R">> :> "USER")
    @@ (<<"S","E","Q","U","E","N","C","E">> :> "SEQUENCE")
    @@ (<<"C","O","N","C","U","R","R","E","N","T","L","Y">> :> "CONCURRENTLY")
    @@ (<<"F","O","R","E","I","G","N">> :> "FOREIGN")
    @@ (<<"C","H","E","C","K">> :> "CHECK")
    @@ (<<"R","E","F","E","R","E","N","C","E","S">> :> "REFERENCES")
    @@ (<<"L","O","C","A","L","E">> :> "LOCALE")
    @@ (<<"D","E","T","E","R","M","I","N","I","S","T","I","C">> :> "DETERMINISTIC")
    @@ (<<"P","R","O","V","I","D","E","R">> :> "PROVIDER")
    @@ (<<"R","U","L","E","S">> :> "RULES")
    @@ (<<"T","R","U","E">> :> "TRUE")
    @@ (<<"F","A","L","S","E">> :> "FALSE")
    @@ (<<"T","A","B","L","E","S","P","A","C","E">> :> "TABLESPACE")
    @@ (<<"A","L","L","O","W","_","C","O","N","N","E","C","T","I","O","N","S">> :> "ALLOW_CONNECTIONS")
    @@ (<<"C","O","N","N","E","C","T","I","O","N","_","L","I","M","I","T">> :> "CONNECTION_LIMIT")
    @@ (<<"E","N","C","O","D","I","N","G">> :> "ENCODING")
    @@ (<<"O","N">> :> "ON")
    @@ (<<"A","S","C">> :> "ASC")
    @@ (<<"A","S","C","E","N","D","I","N","G">> :> "ASC")
    @@ (<<"D","E","S","C">> :> "DESC")
    @@ (<<"D","E","S","C","E","N","D","I","N","G">> :> "DESC")
    @@ (<<"N","U","L","L","S">> :> "NULLS")
    @@ (<<"F","I","R","S","T">> :> "FIRST")
    @@ (<<"L","A","S","T">> :> "LAST")
    @@ (<<"B","E","F","O","R","E">> :> "BEFORE")
    @@ (<<"A","F","T","E","R">> :> "AFTER")
    @@ (<<"I","N","S","T","E","A","D">> :> "INSTEAD")
    @@ (<<"O","F">> :> "OF")
    @@ (<<"T","R","U","N","C","A","T","E">> :> "TRUNCATE")
    @@ (<<"O","R">> :> "OR")
    @@ (<<"E","X","E","C","U","T","E">> :> "EXECUTE")
    @@ (<<"F","U","N","C","T","I","O","N">> :> "FUNCTION")
    @@ (<<"E","A","C","H">> :> "EACH")
    @@ (<<"R","O","W">> :> "ROW")
    @@ (<<"S","T","A","T","E","M","E","N","T">> :> "STATEMENT")
    @@ (<<"W","H","E","N">> :> "WHEN")
    @@ (<<"A","U","T","H","O","R","I","Z","A","T","I","O","N">> :> "AUTHORIZATION")
    @@ (<<"T","E","M","P","O","R","A","R","Y">> :> "TEMPORARY")
    @@ (<<"T","E","M","P">> :> "TEMPORARY")
    @@ (<<"I","N","C","R","E","M","E","N","T">> :> "INCREMENT")
    @@ (<<"B","Y">> :> "BY")
    @@ (<<"M","I","N","V","A","L","U","E">> :> "MINVALUE")
    @@ (<<"M","A","X","V","A","L","U","E">> :> "MAXVALUE")
    @@ (<<"C","Y","C","L","E">> :> "CYCLE")
    @@ (<<"S","T","A","R","T">> :> "START")
    @@ (<<"W","I","T","H">> :> "WITH")
    @@ (<<"N","O">> :> "NO")
    @@ (<<"C","A","C","H","E">> :> "CACHE")
    @@ (<<"N","O","N","E">> :> "NONE")
    @@ (<<"R","O","L","E">> :> "ROLE")
    @@ (<<"P","A","S","S","W","O","R","D">> :> "PASSWORD")
    @@ (<<"L","O","G","I","N">> :> "LOGIN")
    @@ (<<"N","O","L","O","G","I","N">> :> "NO_LOGIN")
    @@ (<<"S","U","P","E","R","U","S","E","R">> :> "SUPERUSER")
    @@ (<<"C","O","N","N","E","C","T","I","O","N">> :> "CONNECTION")
    @@ (<<"L","I","M","I","T">> :> "LIMIT")
    @@ (<<"V","A","L","I","D">> :> "VALID")
    @@ (<<"U","N","T","I","L">> :> "UNTIL")
    @@ (<<"N","O","S","U","P","E","R","U","S","E","R">> :> "NO_SUPERUSER")
    @@ (<<"C","R","E","A","T","E","R","O","L","E">> :> "CREATE_ROLE")
    @@ (<<"N","O","C","R","E","A","T","E","R","O","L","E">> :> "NO_CREATE_ROLE")
    @@ (<<"I","N","H","E","R","I","T">> :> "INHERIT")
    @@ (<<"N","O","I","N","H","E","R","I","T">> :> "NO_INHERIT")
    @@ (<<"C","R","E","A","T","E","D","B">> :> "CREATE_DB")
    @@ (<<"N","O","C","R","E","A","T","E","D","B">> :> "NO_CREATE_DB")
    @@ (<<"R","E","P","L","A","C","E">> :> "REPLACE")
    @@ (<<"R","E","C","U","R","S","I","V","E">> :> "RECURSIVE")
    @@ (<<"A","S">> :> "AS")
    @@ (<<"N","U","L","L">> :> "NULL_TYPE")

\* ------------------------------------------------------------------ Lexer
\* A Lexer value: the fields of class Lexer other than input and keywords.
LexerFields(position, readPosition, ch, line, column) ==
    [position |-> position, readPosition |-> readPosition, ch |-> ch,
     line |-> line, column |-> column]

Token(type, literal, line, column) ==
    [type |-> type, literal |-> literal, line |-> line, column |-> column]

readChar(inp, L) ==
    [L EXCEPT !.ch = IF L.readPosition >= Len(inp) THEN NUL
                     ELSE inp[L.readPosition + 1],
              !.position = L.readPosition,
              !.readPosition = L.readPosition + 1,
              !.column = L.column + 1]

\* Lexer::Lexer: default member values, then one readChar
NewLexer(inp) == readChar(inp, LexerFields(0, 0, NUL, 1, 0))

RECURSIVE skipWhitespace(_, _)
skipWhitespace(inp, L) ==
    IF L.ch \in {" ", "\t", "\n", "\r"}
    THEN skipWhitespace(inp,
             readChar(inp, IF L.ch = "\n"
                           THEN [L EXCEPT !.line = L.line + 1, !.column = 0]
                           ELSE L))
    ELSE L

RECURSIVE IdentifierEnd(_, _)
IdentifierEnd(inp, L) ==
    IF isalpha(L.ch) \/ L.ch = "_" \/ isdigit(L.ch)
    THEN IdentifierEnd(inp, readChar(inp, L))
    ELSE L

\* returns the Lexer after the scan and the substring it covered
readIdentifier(inp, L) ==
    LET E == IdentifierEnd(inp, L)
    IN  [lex |-> E, str |-> substr(inp, L.position, E.position - L.position),
         thrown |-> substr_throws(inp, L.position)]

RECURSIVE NumberEnd(_, _)
NumberEnd(inp, L) ==
    IF isdigit(L.ch) \/ L.ch = "."
    THEN NumberEnd(inp, readChar(inp, L))
    ELSE L

readNumber(inp, L) ==
    LET E == NumberEnd(inp, L)
    IN  [lex |-> E, str |-> substr(inp, L.position, E.position - L.position),
         thrown |-> substr_throws(inp, L.position)]

upperIdent(ident) == [i \in DOMAIN ident |-> toupper(ident[i])]

\* lookupIdent looking the word up as written
lookupIdent_AsWritten(ident) ==
    IF ident \in DOMAIN keywords THEN keywords[ident] ELSE "IDENTIFIER"

lookupIdent(ident) ==
    IF upperIdent(ident) \in DOMAIN keywords
    THEN keywords[upperIdent(ident)]
    ELSE "IDENTIFIER"

RECURSIVE StringEnd(_, _)
StringEnd(inp, L) ==
    IF L.ch # "'" /\ L.ch # NUL
    THEN StringEnd(inp, readChar(inp, L))
    ELSE L

readString(inp, L) ==
    LET startPosition == L.position + 1
        E == StringEnd(inp, readChar(inp, L))
        str == substr(inp, startPosition, E.position - startPosition)
    IN  [lex |-> IF E.ch = "'" THEN readChar(inp, E) ELSE E, str |-> str,
         thrown |-> substr_throws(inp, startPosition)]

\* the single-character cases of the switch in NextToken
SymbolType ==
    ("," :> "COMMA") @@ (";" :> "SEMICOLON") @@ ("*" :> "ASTERISK")
    @@ ("." :> "DOT") @@ ("=" :> "EQUALS") @@ ("(" :> "LPAREN")
    @@ (")" :> "RPAREN") @@ ("+" :> "PLUS") @@ ("-" :> "MINUS")
    @@ ("%" :> "PERCENT") @@ ("^" :> "CARET") @@ (NUL :> "EOF_TOKEN")

\* what a NextToken call yields when std::out_of_range leaves it instead of a token
OutOfRange == Token("std::out_of_range", <<>>, 0, 0)

\* NextToken without the readChar after an unrecognised character
NextTokenOf_IllegalNotConsumed(inp, L0) ==
    LET L == skipWhitespace(inp, L0)
    IN  IF L.ch \in DOMAIN SymbolType
        THEN [tok |-> Token(SymbolType[L.ch], <<L.ch>>, L.line, L.column),
              lex |-> readChar(inp, L)]
        ELSE IF L.ch = "'"
        THEN LET r == readString(inp, L)
             IN  [tok |-> Token("STRING", r.str, r.lex.line, r.lex.column),
                  lex |-> r.lex]
        ELSE IF isalpha(L.ch) \/ L.ch = "_"
        THEN LET r == readIdentifier(inp, L)
             IN  [tok |-> Token(lookupIdent(r.str), r.str, r.lex.line,
                                r.lex.column - Len(r.str)),
                  lex |-> r.lex]
        ELSE IF isdigit(L.ch)
        THEN LET r == readNumber(inp, L)
             IN  [tok |-> Token("NUMBER", r.str, r.lex.line,
                                r.lex.column - Len(r.str)),
                  lex |-> r.lex]
        ELSE [tok |-> Token("ILLEGAL", <<L.ch>>, L.line, L.column), lex |-> L]

\* Lexer::NextToken: the token returned and the Lexer it leaves behind
NextTokenOf(inp, L0) ==
    LET L == skipWhitespace(inp, L0)
    IN  IF L.ch \in DOMAIN SymbolType
        THEN [tok |-> Token(SymbolType[L.ch], <<L.ch>>, L.line, L.column),
              lex |-> readChar(inp, L)]
        ELSE IF L.ch = "'"
        THEN LET r == readString(inp, L)
             IN  [tok |-> IF r.thrown THEN OutOfRange
                          ELSE Token("STRING", r.str, r.lex.line, r.lex.column),
                  lex |-> r.lex]
        ELSE IF isalpha(L.ch) \/ L.ch = "_"
        THEN LET r == readIdentifier(inp, L)
             IN  [tok |-> IF r.thrown THEN OutOfRange
                          ELSE Token(lookupIdent(r.str), r.str, r.lex.line,
                                     r.lex.column - Len(r.str)),
                  lex |-> r.lex]
        ELSE IF isdigit(L.ch)
        THEN LET r == readNumber(inp, L)
             IN  [tok |-> IF r.thrown THEN OutOfRange
                          ELSE Token("NUMBER", r.str, r.lex.line,
                                     r.lex.column - Len(r.str)),
                  lex |-> r.lex]
        ELSE [tok |-> Token("ILLEGAL", <<L.ch>>, L.line, L.column),
              lex |-> readChar(inp, L)]

\* -------------------------------------------------------------------- AST
None == <<>>
Some(x) == <<x>>

\* LiteralValue::value, a std::variant<std::monostate, int64_t, double, bool,
\* std::string>: the alternative its converting constructor selects for an
\* initializer of the given C++ type
variant_alternative ==
    ("std::monostate" :> "std::monostate") @@ ("int" :> "int64_t")
    @@ ("int64_t" :> "int64_t") @@ ("double" :> "double") @@ ("bool" :> "bool")
    @@ ("std::string" :> "std::string")

\* a variant left holding its first alternative whatever it is given
variant_Monostate(ctype, v) == [holds |-> "std::monostate", v |-> v]

\* the variant holding v, given as a value of the C++ type ctype
variant(ctype, v) == [holds |-> variant_alternative[ctype], v |-> v]

ColumnRef(name) == [node |-> "ColumnRef", name |-> name, table_name |-> None]
LiteralValue(type, value) == [node |-> "LiteralValue", type |-> type, value |-> value]
BinaryOp(op, left, right) ==
    [node |-> "BinaryOp", op |-> op, left |-> left, right |-> right]
TableRef(name) == [name |-> name, alias |-> None]

\* default-constructed statements (member initialisers of ast_statements.h)
SelectStmt ==
    [stmt |-> "SelectStmt", projections |-> <<>>, from |-> <<>>, where |-> None,
     having |-> None, group_by |-> <<>>, order_by |-> <<>>, limit |-> None,
     offset |-> None, distinct |-> FALSE]
InsertStmt ==
    [stmt |-> "InsertStmt", table_name |-> <<>>, columns |-> <<>>, values |-> <<>>]
ColumnDef ==
    [name |-> <<>>, type |-> "NULL_TYPE", not_null |-> FALSE,
     primary_key |-> FALSE, unique |-> FALSE]
TableConstraint ==
    [type |-> "UNSET", name |-> <<>>, columns |-> <<>>, foreign_table |-> None,
     foreign_columns |-> <<>>, fk_match_type |-> "s", fk_update_action |-> "a",
     fk_delete_action |-> "a", check_expr |-> None]
CreateTableStmt ==
    [stmt |-> "CreateTableStmt", table_name |-> <<>>, columns |-> <<>>,
     constraints |-> <<>>, if_not_exists |-> FALSE, tablespace |-> None]
CreateSequenceStmt ==
    [stmt |-> "CreateSequenceStmt", sequence_name |-> <<>>,
     if_not_exists |-> FALSE, temporary |-> FALSE, start_value |-> 1,
     increment_by |-> 1, min_value |-> None, max_value |-> None,
     cycle |-> FALSE, cache_size |-> None, owner |-> None]
DropStmt ==
    [stmt |-> "DropStmt", object_type |-> "UNSET", names |-> <<>>,
     if_exists |-> FALSE, cascade |-> FALSE, restrict |-> FALSE,
     concurrently |-> FALSE]
AlterTableStmt ==
    [stmt |-> "AlterTableStmt", table_name |-> <<>>, if_exists |-> FALSE,
     actions |-> <<>>]

CreateRoleStmt ==
    [stmt |-> "CreateRoleStmt", role_name |-> <<>>, if_not_exists |-> FALSE,
     superuser |-> FALSE, createdb |-> FALSE, createrole |-> FALSE,
     inherit |-> TRUE, login |-> FALSE, conn_limit |-> None,
     valid_until |-> None, password |-> None]
CreateCollationStmt ==
    [stmt |-> "CreateCollationStmt", collation_name |-> <<>>, locale |-> <<>>,
     if_not_exists |-> FALSE, deterministic |-> TRUE, provider |-> None,
     version |-> None, rules |-> None, existing_collation_name |-> None]
CreateDatabaseStmt ==
    [stmt |-> "CreateDatabaseStmt", name |-> <<>>, if_not_exists |-> FALSE,
     user_name |-> <<"D","E","F","A","U","L","T">>,
     encoding |-> <<"U","T","F","-","8">>,
     tablespace_name |-> <<"f","x","_","d","e","f","a","u","l","t">>,
     allow_conn |-> TRUE, conn_limit |-> -1]
IndexElem ==
    [name |-> None, expr |-> None, collation |-> None, op_class |-> None,
     ordering |-> "ASC", nulls_first |-> None]
CreateIndexStmt ==
    [stmt |-> "CreateIndexStmt", index_name |-> <<>>, table_name |-> <<>>,
     unique |-> FALSE, if_not_exists |-> FALSE, concurrently |-> FALSE,
     only |-> FALSE, method |-> None, params |-> <<>>, where |-> None,
     tablespace |-> None]
\* timing has no member initialiser; every return path assigns it first
CreateTriggerStmt ==
    [stmt |-> "CreateTriggerStmt", trigger_name |-> <<>>, table_name |-> <<>>,
     timing |-> "UNSET", events |-> <<>>, update_of_columns |-> None,
     function_name |-> <<>>, function_args |-> <<>>, for_each |-> "STATEMENT",
     when |-> None]
CreateViewStmt ==
    [stmt |-> "CreateViewStmt", view_name |-> <<>>, temporary |-> FALSE,
     or_replace |-> FALSE, recursive |-> FALSE, columns |-> <<>>,
     select_stmt |-> SelectStmt]
CreateSchemaStmt ==
    [stmt |-> "CreateSchemaStmt", schema_name |-> <<>>, if_not_exists |-> FALSE,
     authorization |-> None, schema_elements |-> None]

\* ------------------------------------------------- outcome of a parse step
\* A parsing function either returns a value and leaves the cursor at pos, or
\* throws; err.positioned tells whether the message carries a line and column.
NoErr == [what |-> "", line |-> 0, column |-> 0, positioned |-> FALSE]
Ok(p, v) == [ok |-> TRUE, pos |-> p, val |-> v, err |-> NoErr]
\* throw std::runtime_error(what + " at line " + tk.line + ", column " + tk.column)
Throw(p, what, tk) ==
    [ok |-> FALSE, pos |-> p, val |-> None,
     err |-> [what |-> what, line |-> tk.line, column |-> tk.column,
              positioned |-> TRUE]]
\* an exception whose message names no position
ThrowPlain(p, what) ==
    [ok |-> FALSE, pos |-> p, val |-> None,
     err |-> [what |-> what, line |-> 0, column |-> 0, positioned |-> FALSE]]
\* the rest of a function body runs only if the call before it returned
Then(r, K(_)) == IF r.ok THEN K(r) ELSE r

\* ------------------------------------------------------ Parser primitives
EofSentinel == Token("EOF_TOKEN", <<>>, -1, -1)

current(toks, p) == IF p < Len(toks) THEN toks[p + 1] ELSE EofSentinel

\* peek that looks at the cursor whatever the offset
peek_NoOffset(toks, p, offset) ==
    IF p < Len(toks) THEN toks[p + 1] ELSE EofSentinel

peek(toks, p, offset) ==
    IF p + offset < Len(toks) THEN toks[p + offset + 1] ELSE EofSentinel

\* advance(): the token returned and the cursor afterwards
advance(toks, p) ==
    IF p < Len(toks) THEN [tok |-> toks[p + 1], pos |-> p + 1]
    ELSE [tok |-> EofSentinel, pos |-> p]

match(toks, p, type) ==
    IF current(toks, p).type = type
    THEN [matched |-> TRUE, pos |-> advance(toks, p).pos]
    ELSE [matched |-> FALSE, pos |-> p]

expect(toks, p, type, error_msg) ==
    LET m == match(toks, p, type)
    IN  IF m.matched THEN Ok(m.pos, toks[m.pos])
        ELSE Throw(p, error_msg, current(toks, p))

is_end(toks, p) == current(toks, p).type = "EOF_TOKEN"

determine_sign(toks, p) ==
    LET m == match(toks, p, "MINUS")
    IN  [sign |-> IF m.matched THEN -1 ELSE 1, pos |-> m.pos]

\* get_precedence ranking * and % with + and -
get_precedence_OneLevel(type) ==
    CASE type \in {"ASTERISK", "SLASH", "PERCENT", "PLUS", "MINUS"} -> 4
      [] type \in {"EQUALS", "CARET"} -> 3
      [] type = "UNKNOWN" -> 2
      [] OTHER -> 0

get_precedence(type) ==
    CASE type \in {"ASTERISK", "SLASH", "PERCENT"} -> 5
      [] type \in {"PLUS", "MINUS"} -> 4
      [] type \in {"EQUALS", "CARET"} -> 3
      [] type = "UNKNOWN" -> 2
      [] OTHER -> 0

\* the cases of token_to_binop that return; every other token type throws
token_to_binop ==
    ("PLUS" :> "PLUS") @@ ("MINUS" :> "MINUS") @@ ("ASTERISK" :> "MUL")
    @@ ("SLASH" :> "DIV") @@ ("EQUALS" :> "EQ") @@ ("PERCENT" :> "MOD")

DataTypeNames ==
    (<<"I","N","T">> :> "INTEGER") @@ (<<"I","N","T","E","G","E","R">> :> "INTEGER")
    @@ (<<"B","I","G","I","N","T">> :> "BIGINT")
    @@ (<<"D","O","U","B","L","E">> :> "DOUBLE") @@ (<<"F","L","O","A","T">> :> "DOUBLE")
    @@ (<<"R","E","A","L">> :> "DOUBLE") @@ (<<"T","E","X","T">> :> "TEXT")
    @@ (<<"V","A","R","C","H","A","R">> :> "VARCHAR")
    @@ (<<"B","O","O","L","E","A","N">> :> "BOOLEAN") @@ (<<"B","O","O","L">> :> "BOOLEAN")
    @@ (<<"D","A","T","E">> :> "DATE")

\* token_to_data_type taking every token it does not know for TEXT
token_to_data_type_Lenient(p, token) ==
    IF token.type = "IDENTIFIER" /\ upperIdent(token.literal) \in DOMAIN DataTypeNames
    THEN Ok(p, DataTypeNames[upperIdent(token.literal)])
    ELSE Ok(p, "TEXT")

token_to_data_type(p, token) ==
    IF token.type = "IDENTIFIER" /\ upperIdent(token.literal) \in DOMAIN DataTypeNames
    THEN Ok(p, DataTypeNames[upperIdent(token.literal)])
    ELSE Throw(p, "Unknown data type", token)

\* ------------------------------------------------------ number conversion
INT_MAX == 2147483647

DigitValue(c) == (CHOOSE i \in DOMAIN DigitChars : DigitChars[i] = c) - 1

\* the leading run of decimal digits of s
RECURSIVE DigitPrefix(_)
DigitPrefix(s) ==
    IF s # <<>> /\ isdigit(Head(s)) THEN <<Head(s)>> \o DigitPrefix(Tail(s))
    ELSE <<>>

\* value of a digit string, or -1 once it exceeds INT_MAX (std::out_of_range)
RECURSIVE DecimalValue(_, _)
DecimalValue(s, acc) ==
    IF s = <<>> THEN acc
    ELSE LET d == DigitValue(Head(s))
         IN  IF acc > (INT_MAX - d) \div 10 THEN -1
             ELSE DecimalValue(Tail(s), acc * 10 + d)

\* std::stoi on a token text that starts with a digit
stoi(p, literal) ==
    LET v == DecimalValue(DigitPrefix(literal), 0)
    IN  IF v = -1 THEN ThrowPlain(p, "stoi") ELSE Ok(p, v)

RECURSIVE StripTrailingZeros(_)
StripTrailingZeros(s) ==
    IF s # <<>> /\ s[Len(s)] = "0" THEN StripTrailingZeros(SubSeq(s, 1, Len(s) - 1))
    ELSE s

\* std::stod: the longest prefix digits[.digits]; the value is kept as its
\* integral digits and its fractional digits
stod(literal) ==
    LET int == DigitPrefix(literal)
        rest == SubSeq(literal, Len(int) + 1, Len(literal))
        frac == IF rest # <<>> /\ Head(rest) = "." THEN DigitPrefix(Tail(rest))
                ELSE <<>>
    IN  [integral |-> int, fraction |-> StripTrailingZeros(frac)]

\* ------------------------------------------------------------ expressions
RECURSIVE parse_expression(_, _, _), parse_primary(_, _), ClimbLoop(_, _, _, _)

\* the while (true) loop of parse_expression, entered with left parsed
ClimbLoop(toks, p, left, precedence) ==
    LET token == current(toks, p)
        tok_precedence == get_precedence(token.type)
    IN  IF tok_precedence <= precedence THEN Ok(p, left)
        ELSE LET p1 == advance(toks, p).pos
             IN  IF token.type \notin DOMAIN token_to_binop
                 THEN ThrowPlain(p1, "Unknown binary operator token")
                 ELSE Then(parse_expression(toks, p1, tok_precedence),
                           LAMBDA right :
                             ClimbLoop(toks, right.pos,
                                       BinaryOp(token_to_binop[token.type],
                                                left, right.val),
                                       precedence))

parse_expression(toks, p, precedence) ==
    Then(parse_primary(toks, p),
         LAMBDA left : ClimbLoop(toks, left.pos, left.val, precedence))

\* parse_primary handing the precedence of * to the parenthesized expression
parse_primary_InnerPrecedence(toks, p) ==
    LET token == current(toks, p)
        p1 == advance(toks, p).pos
    IN  CASE token.type = "IDENTIFIER" -> Ok(p1, ColumnRef(token.literal))
          [] token.type = "NUMBER" ->
                IF "." \in Range(token.literal)
                THEN Ok(p1, LiteralValue("DOUBLE",
                                         variant("double", stod(token.literal))))
                ELSE Then(stoi(p1, token.literal),
                          LAMBDA n : Ok(p1, LiteralValue("INTEGER",
                                                         variant("int", n.val))))
          [] token.type = "STRING" ->
                Ok(p1, LiteralValue("TEXT", variant("std::string", token.literal)))
          [] token.type = "LPAREN" ->
                Then(parse_expression(toks, p1, 5),
                     LAMBDA expr :
                       Then(expect(toks, expr.pos, "RPAREN", "Expected ')'"),
                            LAMBDA t : Ok(t.pos, expr.val)))
          [] OTHER -> Throw(p, "Unknown expression token", token)

parse_primary(toks, p) ==
    LET token == current(toks, p)
        p1 == advance(toks, p).pos
    IN  CASE token.type = "IDENTIFIER" -> Ok(p1, ColumnRef(token.literal))
          [] token.type = "NUMBER" ->
                IF "." \in Range(token.literal)
                THEN Ok(p1, LiteralValue("DOUBLE",
                                         variant("double", stod(token.literal))))
                ELSE Then(stoi(p1, token.literal),
                          LAMBDA n : Ok(p1, LiteralValue("INTEGER",
                                                         variant("int", n.val))))
          [] token.type = "STRING" ->
                Ok(p1, LiteralValue("TEXT", variant("std::string", token.literal)))
          [] token.type = "LPAREN" ->
                Then(parse_expression(toks, p1, 0),
                     LAMBDA expr :
                       Then(expect(toks, expr.pos, "RPAREN", "Expected ')'"),
                            LAMBDA t : Ok(t.pos, expr.val)))
          [] OTHER -> Throw(p, "Unknown expression token", token)

\* ----------------------------------------------------------------- SELECT
RECURSIVE SelectProjections(_, _, _)
SelectProjections(toks, p, stmt) ==
    LET star == match(toks, p, "ASTERISK")
        item == IF star.matched THEN Ok(star.pos, ColumnRef(<<"*">>))
                ELSE parse_expression(toks, p, 0)
    IN  Then(item, LAMBDA r :
          LET s == [stmt EXCEPT !.projections = Append(@, r.val)]
              m == match(toks, r.pos, "COMMA")
          IN  IF m.matched THEN SelectProjections(toks, m.pos, s) ELSE Ok(m.pos, s))

\* the FROM list taking a table name only if one is there
RECURSIVE SelectFrom_NameOptional(_, _, _)
SelectFrom_NameOptional(toks, p, stmt) ==
    LET name == match(toks, p, "IDENTIFIER")
        s == IF name.matched
             THEN [stmt EXCEPT !.from = Append(@, TableRef(toks[name.pos].literal))]
             ELSE stmt
        m == match(toks, name.pos, "COMMA")
    IN  IF m.matched THEN SelectFrom_NameOptional(toks, m.pos, s) ELSE Ok(m.pos, s)

RECURSIVE SelectFrom(_, _, _)
SelectFrom(toks, p, stmt) ==
    Then(expect(toks, p, "IDENTIFIER", "Expected table name after FROM"),
         LAMBDA table_token :
           LET s == [stmt EXCEPT !.from = Append(@, TableRef(table_token.val.literal))]
               m == match(toks, table_token.pos, "COMMA")
           IN  IF m.matched THEN SelectFrom(toks, m.pos, s) ELSE Ok(m.pos, s))

\* parse_select_stmt parsing the WHERE expression without storing it
parse_select_stmt_WhereDropped(toks, p) ==
    Then(SelectProjections(toks, p, SelectStmt), LAMBDA a :
      LET from == match(toks, a.pos, "FROM")
      IN  Then(IF from.matched THEN SelectFrom(toks, from.pos, a.val) ELSE a,
               LAMBDA b :
                 LET where == match(toks, b.pos, "WHERE")
                 IN  IF where.matched
                     THEN Then(parse_expression(toks, where.pos, 0), LAMBDA e :
                            Ok(e.pos, b.val))
                     ELSE b))

parse_select_stmt(toks, p) ==
    Then(SelectProjections(toks, p, SelectStmt), LAMBDA a :
      LET from == match(toks, a.pos, "FROM")
      IN  Then(IF from.matched THEN SelectFrom(toks, from.pos, a.val) ELSE a,
               LAMBDA b :
                 LET where == match(toks, b.pos, "WHERE")
                 IN  IF where.matched
                     THEN Then(parse_expression(toks, where.pos, 0), LAMBDA e :
                            Ok(e.pos, [b.val EXCEPT !.where = Some(e.val)]))
                     ELSE b))

\* ----------------------------------------------------------------- INSERT
RECURSIVE InsertColumns(_, _, _)
InsertColumns(toks, p, stmt) ==
    Then(expect(toks, p, "IDENTIFIER", "Expected column name in INSERT"),
         LAMBDA col :
           LET s == [stmt EXCEPT !.columns = Append(@, col.val.literal)]
               m == match(toks, col.pos, "COMMA")
           IN  IF m.matched THEN InsertColumns(toks, m.pos, s) ELSE Ok(m.pos, s))

RECURSIVE ValueRow(_, _, _)
ValueRow(toks, p, value_row) ==
    Then(parse_expression(toks, p, 0), LAMBDA e :
      LET m == match(toks, e.pos, "COMMA")
      IN  IF m.matched THEN ValueRow(toks, m.pos, Append(value_row, e.val))
          ELSE Ok(m.pos, Append(value_row, e.val)))

RECURSIVE InsertValues(_, _, _)
InsertValues(toks, p, stmt) ==
    Then(expect(toks, p, "LPAREN", "Expected '(' before values list"), LAMBDA l :
    Then(ValueRow(toks, l.pos, <<>>), LAMBDA row :
    Then(expect(toks, row.pos, "RPAREN", "Expected ')' after values list"), LAMBDA r :
      LET s == [stmt EXCEPT !.values = Append(@, row.val)]
          m == match(toks, r.pos, "COMMA")
      IN  IF m.matched THEN InsertValues(toks, m.pos, s) ELSE Ok(m.pos, s))))

parse_insert_stmt(toks, p) ==
    Then(expect(toks, p, "INSERT", "Expected INSERT keyword"), LAMBDA i :
    Then(expect(toks, i.pos, "IDENTIFIER", "Expected table name after INSERT"),
         LAMBDA table_token :
      LET stmt == [InsertStmt EXCEPT !.table_name = table_token.val.literal]
          lp == match(toks, table_token.pos, "LPAREN")
      IN  Then(IF lp.matched
               THEN Then(InsertColumns(toks, lp.pos, stmt), LAMBDA c :
                      Then(expect(toks, c.pos, "VALUES",
                             "Expected VALUES keyword after column list in INSERT"),
                           LAMBDA v : Ok(v.pos, c.val)))
               ELSE Ok(lp.pos, stmt),
               LAMBDA s : InsertValues(toks, s.pos, s.val))))

\* ----------------------------------------------------------- CREATE TABLE
\* the inline-constraint loop of parse_column_def
\* one inline constraint: the body of the loop
ColumnConstraint(toks, p, column_def) ==
    LET not == match(toks, p, "NOT")
        unique == match(toks, p, "UNIQUE")
        primary == match(toks, p, "PRIMARY")
    IN  IF not.matched
        THEN Then(expect(toks, not.pos, "NULL_TYPE",
                    "Expected NULL after NOT in column constraint"),
                  LAMBDA t : Ok(t.pos, [column_def EXCEPT !.not_null = TRUE]))
        ELSE IF unique.matched
        THEN Ok(unique.pos, [column_def EXCEPT !.unique = TRUE])
        ELSE IF primary.matched
        THEN Then(expect(toks, primary.pos, "KEY",
                    "Expected KEY after PRIMARY in column constraint"),
                  LAMBDA t : Ok(t.pos, [column_def EXCEPT !.primary_key = TRUE]))
        ELSE Throw(p, "Unknown column constraint in column definition",
                   current(toks, p))

RECURSIVE ColumnConstraints(_, _, _)
ColumnConstraints(toks, p, column_def) ==
    IF current(toks, p).type \in {"COMMA", "RPAREN"} THEN Ok(p, column_def)
    ELSE Then(ColumnConstraint(toks, p, column_def),
              LAMBDA c : ColumnConstraints(toks, c.pos, c.val))

parse_column_def(toks, p) ==
    Then(expect(toks, p, "IDENTIFIER", "Expected column name in column definition"),
         LAMBDA col_name_token :
      LET type_token == advance(toks, col_name_token.pos)
      IN  Then(token_to_data_type(type_token.pos, type_token.tok), LAMBDA type :
            ColumnConstraints(toks, type.pos,
                [ColumnDef EXCEPT !.name = col_name_token.val.literal,
                                  !.type = type.val])))

\* do { names.push_back(expect(IDENTIFIER, msg).literal); } while (match(COMMA));
RECURSIVE IdentifierList(_, _, _, _)
IdentifierList(toks, p, names, msg) ==
    Then(expect(toks, p, "IDENTIFIER", msg), LAMBDA t :
      LET m == match(toks, t.pos, "COMMA")
      IN  IF m.matched THEN IdentifierList(toks, m.pos, Append(names, t.val.literal), msg)
          ELSE Ok(m.pos, Append(names, t.val.literal)))

\* expect(LPAREN, open); the identifier list; expect(RPAREN, close)
ParenIdentifierList(toks, p, open, item, close) ==
    Then(expect(toks, p, "LPAREN", open), LAMBDA l :
    Then(IdentifierList(toks, l.pos, <<>>, item), LAMBDA names :
    Then(expect(toks, names.pos, "RPAREN", close), LAMBDA r :
      Ok(r.pos, names.val))))

parse_table_constraint(toks, p) ==
    LET c == match(toks, p, "CONSTRAINT")
        named == IF c.matched
                 THEN Then(expect(toks, c.pos, "IDENTIFIER",
                             "Expected constraint name after CONSTRAINT"),
                           LAMBDA n : Ok(n.pos, [TableConstraint EXCEPT
                                                   !.name = n.val.literal]))
                 ELSE Ok(p, TableConstraint)
    IN  Then(named, LAMBDA k :
          LET type == current(toks, k.pos).type
              p1 == advance(toks, k.pos).pos
          IN  CASE type = "PRIMARY" ->
                    Then(expect(toks, p1, "KEY",
                           "Expected KEY after PRIMARY in table constraint"), LAMBDA t :
                    Then(ParenIdentifierList(toks, t.pos,
                           "Expected '(' after PRIMARY KEY in table constraint",
                           "Expected column name in PRIMARY KEY constraint",
                           "Expected ')' after column list in PRIMARY KEY constraint"),
                         LAMBDA cols :
                      Ok(cols.pos, [k.val EXCEPT !.type = "PRIMARY_KEY",
                                                 !.columns = cols.val])))
                [] type = "UNIQUE" ->
                    Then(ParenIdentifierList(toks, p1,
                           "Expected '(' after UNIQUE in table constraint",
                           "Expected column name in UNIQUE constraint",
                           "Expected ')' after column list in UNIQUE constraint"),
                         LAMBDA cols :
                      Ok(cols.pos, [k.val EXCEPT !.type = "UNIQUE",
                                                 !.columns = cols.val]))
                [] type = "FOREIGN" ->
                    Then(expect(toks, p1, "KEY",
                           "Expected KEY after FOREIGN in table constraint"), LAMBDA t :
                    Then(ParenIdentifierList(toks, t.pos,
                           "Expected '(' after FOREIGN KEY in table constraint",
                           "Expected column name in FOREIGN KEY constraint",
                           "Expected ')' after column list in FOREIGN KEY constraint"),
                         LAMBDA cols :
                    Then(expect(toks, cols.pos, "REFERENCES",
                           "Expected REFERENCES in FOREIGN KEY constraint"), LAMBDA r :
                    Then(expect(toks, r.pos, "IDENTIFIER",
                           "Expected referenced table name in FOREIGN KEY constraint"),
                         LAMBDA ft :
                    Then(ParenIdentifierList(toks, ft.pos,
                           "Expected '(' after referenced table name in FOREIGN KEY constraint",
                           "Expected referenced column name in FOREIGN KEY constraint",
                           "Expected ')' after referenced column list in FOREIGN KEY constraint"),
                         LAMBDA fcols :
                      Ok(fcols.pos, [k.val EXCEPT !.type = "FOREIGN_KEY",
                                                  !.columns = cols.val,
                                                  !.foreign_table = Some(ft.val.literal),
                                                  !.foreign_columns = fcols.val]))))))
                [] type = "CHECK" ->
                    Then(expect(toks, p1, "LPAREN",
                           "Expected '(' after CHECK in table constraint"), LAMBDA l :
                    Then(parse_expression(toks, l.pos, 0), LAMBDA e :
                    Then(expect(toks, e.pos, "RPAREN",
                           "Expected ')' after CHECK expression in table constraint"),
                         LAMBDA r :
                      Ok(r.pos, [k.val EXCEPT !.type = "CHECK",
                                              !.check_expr = Some(e.val)]))))
                [] OTHER -> Throw(k.pos, "Unknown table constraint type",
                                  current(toks, k.pos)))

\* the second loop of parse_create_table_stmt
RECURSIVE TableConstraints(_, _, _)
TableConstraints(toks, p, stmt) ==
    IF current(toks, p).type = "RPAREN" THEN Ok(p, stmt)
    ELSE Then(parse_table_constraint(toks, p), LAMBDA c :
           TableConstraints(toks, match(toks, c.pos, "COMMA").pos,
                            [stmt EXCEPT !.constraints = Append(@, c.val)]))

IsTableConstraintStart(type) ==
    type \in {"CONSTRAINT", "PRIMARY", "FOREIGN", "CHECK", "UNIQUE"}

\* one table element: a constraint or a column definition, added to stmt
TableElement(toks, p, stmt) ==
    IF IsTableConstraintStart(current(toks, p).type)
    THEN Then(parse_table_constraint(toks, p), LAMBDA c :
           Ok(c.pos, [stmt EXCEPT !.constraints = Append(@, c.val)]))
    ELSE Then(parse_column_def(toks, p), LAMBDA c :
           Ok(c.pos, [stmt EXCEPT !.columns = Append(@, c.val)]))

\* the body of parse_create_table_stmt after the table name: the first loop
\* returns from inside its first iteration, so first is still true there
CreateTableBody(toks, p, stmt) ==
    IF current(toks, p).type \notin {"RPAREN", "EOF_TOKEN"}
    THEN Then(TableElement(toks, p, stmt), LAMBDA e :
         Then(expect(toks, e.pos, "RPAREN", "Expected ')' after table definition"),
              LAMBDA r : Ok(r.pos, e.val)))
    ELSE Then(TableConstraints(toks, p, stmt), LAMBDA c :
         Then(expect(toks, c.pos, "RPAREN",
                "Expected ')' after column definitions in CREATE TABLE"),
              LAMBDA r : Ok(r.pos, c.val)))

parse_create_table_stmt(toks, p) ==
    Then(expect(toks, p, "TABLE", "Expected TABLE keyword after CREATE"), LAMBDA t :
      LET if == match(toks, t.pos, "IF")
          ine == IF if.matched
                 THEN Then(expect(toks, if.pos, "NOT",
                             "Expected NOT after IF in CREATE TABLE"), LAMBDA n :
                      Then(expect(toks, n.pos, "EXISTS",
                             "Expected EXISTS after NOT in CREATE TABLE"), LAMBDA e :
                        Ok(e.pos, [CreateTableStmt EXCEPT !.if_not_exists = TRUE])))
                 ELSE Ok(if.pos, CreateTableStmt)
      IN  Then(ine, LAMBDA s :
          Then(expect(toks, s.pos, "IDENTIFIER", "Expected table name after CREATE TABLE"),
               LAMBDA table_name_token :
            CreateTableBody(toks, table_name_token.pos,
                [s.val EXCEPT !.table_name = table_name_token.val.literal]))))

\* -------------------------------------------------------- CREATE SEQUENCE
\* [sign] NUMBER, converted with std::stoi and multiplied by the sign
SignedNumber(toks, p, signed, msg) ==
    LET s == IF signed THEN determine_sign(toks, p) ELSE [sign |-> 1, pos |-> p]
    IN  Then(expect(toks, s.pos, "NUMBER", msg), LAMBDA n :
        Then(stoi(n.pos, n.val.literal), LAMBDA v : Ok(v.pos, v.val * s.sign)))

\* the switch of the loop of parse_create_sequence_stmt: one option
SequenceOption(toks, p, stmt) ==
    LET type == current(toks, p).type
        p1 == advance(toks, p).pos
    IN    CASE type = "INCREMENT" ->
                 Then(expect(toks, p1, "BY",
                        "Expected BY after INCREMENT in CREATE SEQUENCE"), LAMBDA b :
                 Then(SignedNumber(toks, b.pos, TRUE,
                        "Expected number after INCREMENT BY in CREATE SEQUENCE"),
                      LAMBDA n : Ok(n.pos, [stmt EXCEPT !.increment_by = n.val])))
            [] type = "MINVALUE" ->
                 Then(SignedNumber(toks, p1, TRUE,
                        "Expected number after MINVALUE in CREATE SEQUENCE"),
                      LAMBDA n : Ok(n.pos, [stmt EXCEPT !.min_value = Some(n.val)]))
            [] type = "MAXVALUE" ->
                 Then(SignedNumber(toks, p1, TRUE,
                        "Expected number after MAXVALUE in CREATE SEQUENCE"),
                      LAMBDA n : Ok(n.pos, [stmt EXCEPT !.max_value = Some(n.val)]))
            [] type = "CYCLE" -> Ok(p1, [stmt EXCEPT !.cycle = TRUE])
            [] type = "START" ->
                 Then(expect(toks, p1, "WITH",
                        "Expected WITH after START in CREATE SEQUENCE"), LAMBDA w :
                 Then(SignedNumber(toks, w.pos, TRUE,
                        "Expected number after START WITH in CREATE SEQUENCE"),
                      LAMBDA n : Ok(n.pos, [stmt EXCEPT !.start_value = n.val])))
            [] type = "CACHE" ->
                 Then(SignedNumber(toks, p1, FALSE,
                        "Expected number after CACHE in CREATE SEQUENCE"),
                      LAMBDA n : Ok(n.pos, [stmt EXCEPT !.cache_size = Some(n.val)]))
            [] type = "NO" ->
                 LET cycle == match(toks, p1, "CYCLE")
                     minvalue == match(toks, p1, "MINVALUE")
                     maxvalue == match(toks, p1, "MAXVALUE")
                 IN  IF cycle.matched THEN Ok(cycle.pos, [stmt EXCEPT !.cycle = FALSE])
                     ELSE IF minvalue.matched
                     THEN Ok(minvalue.pos, [stmt EXCEPT !.min_value = None])
                     ELSE IF maxvalue.matched
                     THEN Ok(maxvalue.pos, [stmt EXCEPT !.max_value = None])
                     ELSE Throw(p1, "Expected CYCLE, MINVALUE, or MAXVALUE after NO in CREATE SEQUENCE",
                                current(toks, p1))
            [] type = "OWNED" ->
                 Then(expect(toks, p1, "BY",
                        "Expected BY after OWNED in CREATE SEQUENCE"), LAMBDA b :
                   LET none == match(toks, b.pos, "NONE")
                   IN  IF none.matched THEN Ok(none.pos, [stmt EXCEPT !.owner = None])
                       ELSE Then(expect(toks, b.pos, "IDENTIFIER",
                                   "Expected table name after OWNED BY in CREATE SEQUENCE"),
                                 LAMBDA table_token :
                            Then(expect(toks, table_token.pos, "DOT",
                                   "Expected '.' between table and column name in OWNED BY in CREATE SEQUENCE"),
                                 LAMBDA d :
                            Then(expect(toks, d.pos, "IDENTIFIER",
                                   "Expected column name after '.' in OWNED BY in CREATE SEQUENCE"),
                                 LAMBDA column_token :
                              Ok(column_token.pos,
                                 [stmt EXCEPT !.owner =
                                    Some(<<table_token.val.literal,
                                           column_token.val.literal>>)])))))
            [] OTHER -> Throw(p, "Unknown option in CREATE SEQUENCE", current(toks, p))

RECURSIVE SequenceOptions(_, _, _)
SequenceOptions(toks, p, stmt) ==
    IF current(toks, p).type \in {"SEMICOLON", "EOF_TOKEN"} THEN Ok(p, stmt)
    ELSE Then(SequenceOption(toks, p, stmt),
              LAMBDA s : SequenceOptions(toks, s.pos, s.val))

parse_create_sequence_stmt(toks, p) ==
    LET temp == match(toks, p, "TEMPORARY")
        stmt0 == [CreateSequenceStmt EXCEPT !.temporary = temp.matched]
    IN  Then(expect(toks, temp.pos, "SEQUENCE",
               "Expected SEQUENCE keyword in CREATE SEQUENCE"), LAMBDA q :
          LET if == match(toks, q.pos, "IF")
              ine == IF if.matched
                     THEN Then(expect(toks, if.pos, "NOT",
                                 "Expected NOT after IF in CREATE SEQUENCE"), LAMBDA n :
                          Then(expect(toks, n.pos, "EXISTS",
                                 "Expected EXISTS after NOT in CREATE SEQUENCE"), LAMBDA e :
                            Ok(e.pos, [stmt0 EXCEPT !.if_not_exists = TRUE])))
                     ELSE Ok(if.pos, stmt0)
          IN  Then(ine, LAMBDA s :
              Then(expect(toks, s.pos, "IDENTIFIER",
                     "Expected sequence name after CREATE SEQUENCE"), LAMBDA name :
                SequenceOptions(toks, name.pos,
                    [s.val EXCEPT !.sequence_name = name.val.literal]))))

\* ------------------------------------------------------------------- DROP
DropObjectTypes ==
    {"TABLE", "VIEW", "INDEX", "SCHEMA", "TRIGGER", "SEQUENCE", "COLLATION",
     "DATABASE", "USER", "TYPE"}

parse_drop_stmt(toks, p) ==
    LET type == current(toks, p).type
    IN  IF type \notin DropObjectTypes
        THEN Throw(p, "Unknown object type in DROP statement", current(toks, p))
        ELSE
          LET p1 == advance(toks, p).pos
              \* || short-circuits: CONCURRENTLY is not looked for after INDEX
              conc == IF type = "INDEX" THEN [matched |-> TRUE, pos |-> p1]
                      ELSE match(toks, p1, "CONCURRENTLY")
              if == match(toks, conc.pos, "IF")
              stmt0 == [DropStmt EXCEPT !.object_type = type,
                                        !.concurrently = conc.matched,
                                        !.if_exists = if.matched]
              exists == IF if.matched
                        THEN expect(toks, if.pos, "EXISTS",
                                    "Expected EXISTS after IF in DROP statement")
                        ELSE Ok(if.pos, None)
          IN  Then(exists, LAMBDA e :
              Then(IdentifierList(toks, e.pos, <<>>,
                                  "Expected object name in DROP statement"),
                   LAMBDA names :
                LET cascade == match(toks, names.pos, "CASCADE")
                    restrict == IF cascade.matched
                                THEN [matched |-> FALSE, pos |-> cascade.pos]
                                ELSE match(toks, names.pos, "RESTRICT")
                IN  Ok(restrict.pos,
                       [stmt0 EXCEPT !.names = names.val,
                                     !.cascade = cascade.matched,
                                     !.restrict = restrict.matched])))

\* ------------------------------------------------------------ ALTER TABLE
AddColumnAction ==
    [action |-> "AddColumnAction", column_def |-> ColumnDef, if_not_exists |-> FALSE]
AddConstraintAction ==
    [action |-> "AddConstraintAction", column_name |-> <<>>, not_null |-> FALSE,
     unique |-> FALSE, primary_key |-> FALSE]
DropColumnAction ==
    [action |-> "DropColumnAction", column_name |-> <<>>, if_exists |-> FALSE,
     cascade |-> FALSE]
DropConstraintAction ==
    [action |-> "DropConstraintAction", constraint_name |-> <<>>,
     if_exists |-> FALSE, cascade |-> FALSE]
AlterColumnTypeAction ==
    [action |-> "AlterColumnTypeAction", column_name |-> <<>>,
     new_type |-> "UNSET", using_expr |-> None, collation |-> <<>>]
AlterColumnDefaultAction ==
    [action |-> "AlterColumnDefaultAction", column_name |-> <<>>,
     default_expr |-> None, is_drop |-> FALSE]
AlterColumnNotNullAction ==
    [action |-> "AlterColumnNotNullAction", column_name |-> <<>>,
     set_not_null |-> TRUE]
RenameColumnAction ==
    [action |-> "RenameColumnAction", old_name |-> <<>>, new_name |-> <<>>]
RenameTableAction == [action |-> "RenameTableAction", new_name |-> <<>>]
RenameConstraintAction ==
    [action |-> "RenameConstraintAction", old_name |-> <<>>, new_name |-> <<>>]
SetSchemaAction == [action |-> "SetSchemaAction", schema_name |-> <<>>]
OwnerToAction == [action |-> "OwnerToAction", new_owner |-> <<>>]

\* optional IF EXISTS: whether it was written, and the cursor after it
IfExists(toks, p, msg) ==
    LET if == match(toks, p, "IF")
    IN  IF if.matched
        THEN Then(expect(toks, if.pos, "EXISTS", msg), LAMBDA e : Ok(e.pos, TRUE))
        ELSE Ok(if.pos, FALSE)

\* optional IF NOT EXISTS
IfNotExists(toks, p, msgNot, msgExists) ==
    LET if == match(toks, p, "IF")
    IN  IF if.matched
        THEN Then(expect(toks, if.pos, "NOT", msgNot), LAMBDA n :
             Then(expect(toks, n.pos, "EXISTS", msgExists), LAMBDA e :
               Ok(e.pos, TRUE)))
        ELSE Ok(if.pos, FALSE)

\* the constraint loops of ADD COLUMN / ADD CONSTRAINT; flags is a record
\* with not_null, unique and primary_key
\* one constraint: the body of the loops
AddConstraint(toks, p, flags, unknown) ==
    LET not == match(toks, p, "NOT")
        unique == match(toks, p, "UNIQUE")
        primary == match(toks, p, "PRIMARY")
    IN  IF not.matched
        THEN Then(expect(toks, not.pos, "NULL_TYPE",
                    "Expected NULL after NOT in constraint"),
                  LAMBDA t : Ok(t.pos, [flags EXCEPT !.not_null = TRUE]))
        ELSE IF unique.matched
        THEN Ok(unique.pos, [flags EXCEPT !.unique = TRUE])
        ELSE IF primary.matched
        THEN Then(expect(toks, primary.pos, "KEY",
                    "Expected KEY after PRIMARY in constraint"),
                  LAMBDA t : Ok(t.pos, [flags EXCEPT !.primary_key = TRUE]))
        ELSE Throw(p, unknown, current(toks, p))

RECURSIVE AddConstraints(_, _, _, _)
AddConstraints(toks, p, flags, unknown) ==
    IF current(toks, p).type \in {"COMMA", "SEMICOLON", "EOF_TOKEN"} THEN Ok(p, flags)
    ELSE Then(AddConstraint(toks, p, flags, unknown),
              LAMBDA c : AddConstraints(toks, c.pos, c.val, unknown))

parse_add_action(toks, p) ==
    LET column == match(toks, p, "COLUMN")
        constraint == match(toks, p, "CONSTRAINT")
    IN  IF column.matched
        THEN Then(IfNotExists(toks, column.pos,
                    "Expected NOT after IF in ADD COLUMN",
                    "Expected EXISTS after NOT in ADD COLUMN"), LAMBDA ine :
             Then(expect(toks, ine.pos, "IDENTIFIER",
                    "Expected column name after ADD COLUMN"), LAMBDA col_name_token :
               LET type_token == advance(toks, col_name_token.pos)
               IN  Then(token_to_data_type(type_token.pos, type_token.tok),
                        LAMBDA type :
                   Then(AddConstraints(toks, type.pos,
                          [ColumnDef EXCEPT !.name = col_name_token.val.literal,
                                            !.type = type.val],
                          "Unknown column constraint in ADD COLUMN"), LAMBDA def :
                     Ok(def.pos, [AddColumnAction EXCEPT
                                    !.column_def = def.val,
                                    !.if_not_exists = ine.val])))))
        ELSE IF constraint.matched
        THEN Then(expect(toks, constraint.pos, "IDENTIFIER",
                    "Expected column name after ADD CONSTRAINT"),
                  LAMBDA col_name_token :
               AddConstraints(toks, col_name_token.pos,
                   [AddConstraintAction EXCEPT
                      !.column_name = col_name_token.val.literal],
                   "Unknown constraint in ADD CONSTRAINT"))
        ELSE Throw(p, "Expected COLUMN or CONSTRAINT after ADD in ALTER TABLE",
                   current(toks, p))

\* DROP COLUMN / DROP CONSTRAINT: [IF EXISTS] name [CASCADE]
DropTarget(toks, p, msgExists, msgName) ==
    Then(IfExists(toks, p, msgExists), LAMBDA ie :
    Then(expect(toks, ie.pos, "IDENTIFIER", msgName), LAMBDA name :
      LET cascade == match(toks, name.pos, "CASCADE")
      IN  Ok(cascade.pos, [name |-> name.val.literal, if_exists |-> ie.val,
                           cascade |-> cascade.matched])))

parse_drop_action(toks, p) ==
    LET column == match(toks, p, "COLUMN")
        constraint == match(toks, p, "CONSTRAINT")
    IN  IF column.matched
        THEN Then(DropTarget(toks, column.pos,
                    "Expected EXISTS after IF in DROP COLUMN",
                    "Expected column name after DROP COLUMN"), LAMBDA d :
               Ok(d.pos, [DropColumnAction EXCEPT
                            !.column_name = d.val.name,
                            !.if_exists = d.val.if_exists,
                            !.cascade = d.val.cascade]))
        ELSE IF constraint.matched
        THEN Then(DropTarget(toks, constraint.pos,
                    "Expected EXISTS after IF in DROP CONSTRAINT",
                    "Expected constraint name after DROP CONSTRAINT"), LAMBDA d :
               Ok(d.pos, [DropConstraintAction EXCEPT
                            !.constraint_name = d.val.name,
                            !.if_exists = d.val.if_exists,
                            !.cascade = d.val.cascade]))
        ELSE Throw(p, "Expected COLUMN or CONSTRAINT after DROP in ALTER TABLE",
                   current(toks, p))

\* a default-constructed AlterColumnAction holds its first alternative
DefaultAlterColumnAction == AlterColumnTypeAction

\* SET / DROP of parse_alter_column_action, after the keyword was matched
AlterColumnSetOrDrop(toks, p, column_name, is_set) ==
    LET default == match(toks, p, "DEFAULT")
        not == match(toks, p, "NOT")
    IN  IF default.matched
        THEN IF is_set
             THEN Then(parse_expression(toks, default.pos, 0), LAMBDA e :
                    Ok(e.pos, [AlterColumnDefaultAction EXCEPT
                                 !.column_name = column_name,
                                 !.default_expr = e.val]))
             ELSE Ok(default.pos, [AlterColumnDefaultAction EXCEPT
                                     !.column_name = column_name,
                                     !.is_drop = TRUE])
        ELSE IF not.matched
        THEN Then(expect(toks, not.pos, "NULL_TYPE",
                    "Expected NULL after NOT in ALTER COLUMN"), LAMBDA n :
               Ok(n.pos, [AlterColumnNotNullAction EXCEPT
                            !.column_name = column_name,
                            !.set_not_null = is_set]))
        ELSE Ok(p, DefaultAlterColumnAction)

parse_alter_column_action(toks, p) ==
    Then(expect(toks, p, "COLUMN", "Expected COLUMN after ALTER in ALTER TABLE"),
         LAMBDA c :
    Then(expect(toks, c.pos, "IDENTIFIER", "Expected column name after ALTER COLUMN"),
         LAMBDA col_name_token :
      LET column_name == col_name_token.val.literal
          type == match(toks, col_name_token.pos, "TYPE")
          set == match(toks, col_name_token.pos, "SET")
          drop == match(toks, col_name_token.pos, "DROP")
      IN  IF type.matched
          THEN LET type_token == advance(toks, type.pos)
               IN  Then(token_to_data_type(type_token.pos, type_token.tok),
                        LAMBDA new_type :
                     LET using == match(toks, new_type.pos, "USING")
                         using_expr == IF using.matched
                                       THEN parse_expression(toks, using.pos, 0)
                                       ELSE Ok(using.pos, None)
                     IN  Then(using_expr, LAMBDA u :
                           LET collate == match(toks, u.pos, "COLLATE")
                               collation ==
                                 IF collate.matched
                                 THEN Then(expect(toks, collate.pos, "IDENTIFIER",
                                             "Expected collation name after COLLATE"),
                                           LAMBDA t : Ok(t.pos, t.val.literal))
                                 ELSE Ok(collate.pos, <<>>)
                           IN  Then(collation, LAMBDA k :
                                 Ok(k.pos, [AlterColumnTypeAction EXCEPT
                                              !.column_name = column_name,
                                              !.new_type = new_type.val,
                                              !.using_expr = u.val,
                                              !.collation = k.val]))))
          ELSE IF set.matched
          THEN AlterColumnSetOrDrop(toks, set.pos, column_name, TRUE)
          ELSE IF drop.matched
          THEN AlterColumnSetOrDrop(toks, drop.pos, column_name, FALSE)
          ELSE Ok(col_name_token.pos, DefaultAlterColumnAction)))

\* old name, TO, new name
RenameFromTo(toks, p, msgOld, msgTo, msgNew) ==
    Then(expect(toks, p, "IDENTIFIER", msgOld), LAMBDA old :
    Then(expect(toks, old.pos, "TO", msgTo), LAMBDA to :
    Then(expect(toks, to.pos, "IDENTIFIER", msgNew), LAMBDA new :
      Ok(new.pos, [old_name |-> old.val.literal, new_name |-> new.val.literal]))))

parse_rename_action(toks, p) ==
    LET column == match(toks, p, "COLUMN")
        constraint == match(toks, p, "CONSTRAINT")
    IN  IF column.matched
        THEN Then(RenameFromTo(toks, column.pos,
                    "Expected old column name after RENAME COLUMN",
                    "Expected TO after old column name in RENAME COLUMN",
                    "Expected new column name after TO in RENAME COLUMN"), LAMBDA r :
               Ok(r.pos, [RenameColumnAction EXCEPT !.old_name = r.val.old_name,
                                                    !.new_name = r.val.new_name]))
        ELSE IF constraint.matched
        THEN Then(RenameFromTo(toks, constraint.pos,
                    "Expected old constraint name after RENAME CONSTRAINT",
                    "Expected TO after old constraint name in RENAME CONSTRAINT",
                    "Expected new constraint name after TO in RENAME CONSTRAINT"),
                  LAMBDA r :
               Ok(r.pos, [RenameConstraintAction EXCEPT !.old_name = r.val.old_name,
                                                        !.new_name = r.val.new_name]))
        ELSE LET p1 == IF current(toks, p).type = "TO" THEN advance(toks, p).pos ELSE p
             IN  Then(expect(toks, p1, "IDENTIFIER",
                        "Expected new table name after TO in RENAME TABLE"), LAMBDA n :
                   Ok(n.pos, [RenameTableAction EXCEPT !.new_name = n.val.literal]))

parse_set_schema_action(toks, p) ==
    Then(expect(toks, p, "SCHEMA", "Expected SCHEMA after SET in ALTER TABLE"), LAMBDA s :
    Then(expect(toks, s.pos, "IDENTIFIER", "Expected schema name after SET SCHEMA"),
         LAMBDA schema_name_token :
      Ok(schema_name_token.pos,
         [SetSchemaAction EXCEPT !.schema_name = schema_name_token.val.literal])))

parse_owner_to_action(toks, p) ==
    Then(expect(toks, p, "TO", "Expected TO after OWNER in ALTER TABLE"), LAMBDA t :
    Then(expect(toks, t.pos, "IDENTIFIER", "Expected new owner name after TO in SET OWNER"),
         LAMBDA new_owner_token :
      Ok(new_owner_token.pos,
         [OwnerToAction EXCEPT !.new_owner = new_owner_token.val.literal])))

parse_alter_table_action(toks, p) ==
    LET type == current(toks, p).type
        p1 == advance(toks, p).pos
    IN  CASE type = "ADD" -> parse_add_action(toks, p1)
          [] type = "DROP" -> parse_drop_action(toks, p1)
          [] type = "ALTER" -> parse_alter_column_action(toks, p1)
          [] type = "RENAME" -> parse_rename_action(toks, p1)
          [] type = "SET" -> parse_set_schema_action(toks, p1)
          [] type = "OWNER" -> parse_owner_to_action(toks, p1)
          [] OTHER -> Throw(p, "Unknown ALTER TABLE action", current(toks, p))

RECURSIVE AlterActions(_, _, _)
AlterActions(toks, p, stmt) ==
    Then(parse_alter_table_action(toks, p), LAMBDA a :
      LET s == [stmt EXCEPT !.actions = Append(@, a.val)]
          m == match(toks, a.pos, "COMMA")
      IN  IF m.matched THEN AlterActions(toks, m.pos, s) ELSE Ok(m.pos, s))

parse_alter_table_stmt(toks, p) ==
    Then(expect(toks, p, "TABLE", "Expected TABLE keyword after ALTER"), LAMBDA t :
    Then(IfExists(toks, t.pos, "Expected EXISTS after IF in ALTER TABLE"), LAMBDA ie :
    Then(expect(toks, ie.pos, "IDENTIFIER", "Expected table name after ALTER TABLE"),
         LAMBDA table_token :
      AlterActions(toks, table_token.pos,
          [AlterTableStmt EXCEPT !.table_name = table_token.val.literal,
                                 !.if_exists = ie.val]))))

\* ------------------------------------------------------------ CREATE ROLE
\* case PASSWORD of the option switch, up to the end of its block
RolePassword(toks, p, stmt) ==
    LET p1 == advance(toks, p).pos
        null == match(toks, p1, "NULL_TYPE")
    IN  IF null.matched THEN Ok(null.pos, [stmt EXCEPT !.password = None])
        ELSE Then(expect(toks, p1, "STRING",
                    "Expected password string after PASSWORD in CREATE ROLE"),
                  LAMBDA pwd_token :
                    Ok(pwd_token.pos,
                       [stmt EXCEPT !.password = Some(pwd_token.val.literal)]))

\* case CONNECTION of the option switch, up to its break
RoleConnection(toks, p, stmt) ==
    LET p1 == advance(toks, p).pos
    IN  Then(expect(toks, p1, "LIMIT",
               "Expected LIMIT after CONNECTION in CREATE ROLE"), LAMBDA l :
          LET s == determine_sign(toks, l.pos)
          IN  Then(expect(toks, s.pos, "NUMBER",
                     "Expected number after LIMIT in CREATE ROLE"), LAMBDA limit_token :
              Then(stoi(limit_token.pos, limit_token.val.literal), LAMBDA limit_value :
                IF s.sign < 0 /\ limit_value.val # 1
                THEN Throw(limit_value.pos,
                           "Connection limit cannot be less than -1 in CREATE ROLE",
                           limit_token.val)
                ELSE Ok(limit_value.pos,
                        [stmt EXCEPT !.conn_limit = Some(limit_value.val * s.sign)]))))

\* the flag options of CREATE ROLE: the field each sets and the value
RoleFlags ==
    ("LOGIN" :> <<"login", TRUE>>) @@ ("NO_LOGIN" :> <<"login", FALSE>>)
    @@ ("SUPERUSER" :> <<"superuser", TRUE>>)
    @@ ("NO_SUPERUSER" :> <<"superuser", FALSE>>)
    @@ ("CREATE_DB" :> <<"createdb", TRUE>>) @@ ("NO_CREATE_DB" :> <<"createdb", FALSE>>)
    @@ ("CREATE_ROLE" :> <<"createrole", TRUE>>)
    @@ ("NO_CREATE_ROLE" :> <<"createrole", FALSE>>)
    @@ ("INHERIT" :> <<"inherit", TRUE>>) @@ ("NO_INHERIT" :> <<"inherit", FALSE>>)

\* the body of the while loop after WITH: the switch on the current token,
\* then the advance() that follows the switch; case PASSWORD has no break and
\* runs on into case CONNECTION
RoleOption(toks, p, stmt) ==
    LET type == current(toks, p).type
    IN  Then(
          CASE type \in DOMAIN RoleFlags ->
                 Ok(p, [stmt EXCEPT ![RoleFlags[type][1]] = RoleFlags[type][2]])
            [] type = "PASSWORD" ->
                 Then(RolePassword(toks, p, stmt), LAMBDA s :
                   RoleConnection(toks, s.pos, s.val))
            [] type = "CONNECTION" -> RoleConnection(toks, p, stmt)
            [] OTHER -> Throw(p, "Unknown option in CREATE ROLE", current(toks, p)),
          LAMBDA s : Ok(advance(toks, s.pos).pos, s.val))

RECURSIVE RoleOptions(_, _, _)
RoleOptions(toks, p, stmt) ==
    IF current(toks, p).type \in {"SEMICOLON", "EOF_TOKEN"} THEN Ok(p, stmt)
    ELSE Then(RoleOption(toks, p, stmt), LAMBDA s : RoleOptions(toks, s.pos, s.val))

parse_create_role_stmt(toks, p) ==
    Then(expect(toks, p, "ROLE", "Expected ROLE keyword after CREATE"), LAMBDA r :
    Then(IfNotExists(toks, r.pos, "Expected NOT after IF in CREATE ROLE",
                     "Expected EXISTS after NOT in CREATE ROLE"), LAMBDA ine :
    Then(expect(toks, ine.pos, "IDENTIFIER", "Expected role name after CREATE ROLE"),
         LAMBDA name :
      LET stmt == [CreateRoleStmt EXCEPT !.if_not_exists = ine.val,
                                         !.role_name = name.val.literal]
          with == match(toks, name.pos, "WITH")
      IN  IF with.matched THEN RoleOptions(toks, with.pos, stmt)
          ELSE Ok(with.pos, stmt))))

\* ------------------------------------------- CREATE COLLATION and DATABASE
\* = TRUE | FALSE written as an identifier of any letter case
BoolOption(toks, p, msgEquals, msgValue, msgBool) ==
    Then(expect(toks, p, "EQUALS", msgEquals), LAMBDA eq :
    Then(expect(toks, eq.pos, "IDENTIFIER", msgValue), LAMBDA bool_token :
      LET bool_str == upperIdent(bool_token.val.literal)
      IN  IF bool_str = <<"T","R","U","E">> THEN Ok(bool_token.pos, TRUE)
          ELSE IF bool_str = <<"F","A","L","S","E">> THEN Ok(bool_token.pos, FALSE)
          ELSE Throw(bool_token.pos, msgBool, bool_token.val)))

\* = followed by a token of the given type; yields the token text
TextOption(toks, p, type, msgEquals, msgValue) ==
    Then(expect(toks, p, "EQUALS", msgEquals), LAMBDA eq :
    Then(expect(toks, eq.pos, type, msgValue), LAMBDA t : Ok(t.pos, t.val.literal)))

\* the do-while loop over the options of CREATE COLLATION
RECURSIVE CollationOptions(_, _, _)
CollationOptions(toks, p, stmt) ==
    LET locale == match(toks, p, "LOCALE")
        deterministic == match(toks, p, "DETERMINISTIC")
        rules == match(toks, p, "RULES")
        provider == match(toks, p, "PROVIDER")
        option ==
          IF locale.matched
          THEN Then(TextOption(toks, locale.pos, "STRING",
                      "Expected '=' after LOCALE in CREATE COLLATION",
                      "Expected locale string after '=' in CREATE COLLATION"),
                    LAMBDA v : Ok(v.pos, [stmt EXCEPT !.locale = v.val]))
          ELSE IF deterministic.matched
          THEN Then(BoolOption(toks, deterministic.pos,
                      "Expected '=' after DETERMINISTIC in CREATE COLLATION",
                      "Expected boolean value after '=' in CREATE COLLATION",
                      "Expected TRUE or FALSE after '=' in CREATE COLLATION"),
                    LAMBDA v : Ok(v.pos, [stmt EXCEPT !.deterministic = v.val]))
          ELSE IF rules.matched
          THEN Then(TextOption(toks, rules.pos, "STRING",
                      "Expected '=' after RULES in CREATE COLLATION",
                      "Expected rules string after '=' in CREATE COLLATION"),
                    LAMBDA v : Ok(v.pos, [stmt EXCEPT !.rules = Some(v.val)]))
          ELSE IF provider.matched
          THEN Then(TextOption(toks, provider.pos, "STRING",
                      "Expected '=' after PROVIDER in CREATE COLLATION",
                      "Expected provider string after '=' in CREATE COLLATION"),
                    LAMBDA v : Ok(v.pos, [stmt EXCEPT !.provider = Some(v.val)]))
          ELSE Throw(p, "Unknown option in CREATE COLLATION", current(toks, p))
    IN  Then(option, LAMBDA s :
          LET comma == match(toks, s.pos, "COMMA")
          IN  IF comma.matched THEN CollationOptions(toks, comma.pos, s.val)
              ELSE Ok(comma.pos, s.val))

parse_create_collation_stmt(toks, p) ==
    Then(expect(toks, p, "COLLATION", "Expected COLLATION keyword after CREATE"),
         LAMBDA c :
    Then(IfNotExists(toks, c.pos, "Expected NOT after IF in CREATE COLLATION",
                     "Expected EXISTS after NOT in CREATE COLLATION"), LAMBDA ine :
    Then(expect(toks, ine.pos, "IDENTIFIER",
           "Expected collation name after CRATE COLLATION"), LAMBDA name :
      LET stmt == [CreateCollationStmt EXCEPT !.if_not_exists = ine.val,
                                              !.collation_name = name.val.literal]
          from == match(toks, name.pos, "FROM")
          lparen == match(toks, name.pos, "LPAREN")
      IN  IF from.matched
          THEN Then(expect(toks, from.pos, "IDENTIFIER",
                      "Expected collation name after FROM in CREATE COLLATION"),
                    LAMBDA e :
                      Ok(e.pos, [stmt EXCEPT !.existing_collation_name =
                                               Some(e.val.literal)]))
          ELSE Then(IF lparen.matched THEN CollationOptions(toks, lparen.pos, stmt)
                    ELSE Ok(lparen.pos, stmt), LAMBDA s :
               Then(expect(toks, s.pos, "RPAREN",
                      "Expected ')' after options in CREATE COLLATION"), LAMBDA r :
                 Ok(r.pos, s.val))))))

\* the do-while loop over the options of CREATE DATABASE
RECURSIVE DatabaseOptions(_, _, _)
DatabaseOptions(toks, p, stmt) ==
    LET owner == match(toks, p, "OWNER")
        encoding == match(toks, p, "ENCODING")
        allow == match(toks, p, "ALLOW_CONNECTIONS")
        limit == match(toks, p, "CONNECTION_LIMIT")
        option ==
          IF owner.matched
          THEN Then(TextOption(toks, owner.pos, "IDENTIFIER",
                      "Expected '=' after OWNER in CREATE DATABASE",
                      "Expected owner name after '=' in CREATE DATABASE"),
                    LAMBDA v : Ok(v.pos, [stmt EXCEPT !.user_name = v.val]))
          ELSE IF encoding.matched
          THEN Then(TextOption(toks, encoding.pos, "STRING",
                      "Expected '=' after ENCODING in CREATE DATABASE",
                      "Expected encoding string after '=' in CREATE DATABASE"),
                    LAMBDA v : Ok(v.pos, [stmt EXCEPT !.encoding = v.val]))
          ELSE IF allow.matched
          THEN Then(BoolOption(toks, allow.pos,
                      "Expected '=' after TEMPLATE in CREATE DATABASE",
                      "Expected template database name after '=' in CREATE DATABASE",
                      "Expected TRUE or FALSE after '=' in CREATE DATABASE"),
                    LAMBDA v : Ok(v.pos, [stmt EXCEPT !.allow_conn = v.val]))
          ELSE IF limit.matched
          THEN Then(TextOption(toks, limit.pos, "NUMBER",
                      "Expected '=' after CONNECTION LIMIT in CREATE DATABASE",
                      "Expected connection limit number after '=' in CREATE DATABASE"),
                    LAMBDA n :
               Then(stoi(n.pos, n.val), LAMBDA v :
                 Ok(v.pos, [stmt EXCEPT !.conn_limit = v.val])))
          ELSE Throw(p, "Unknown option in CREATE DATABASE", current(toks, p))
    IN  Then(option, LAMBDA s :
          LET comma == match(toks, s.pos, "COMMA")
          IN  IF comma.matched THEN DatabaseOptions(toks, comma.pos, s.val)
              ELSE Ok(comma.pos, s.val))

parse_create_database_stmt(toks, p) ==
    Then(expect(toks, p, "DATABASE", "Expected DATABASE keyword after CREATE"),
         LAMBDA d :
    Then(IfNotExists(toks, d.pos, "Expected NOT after IF in CREATE DATABASE",
                     "Expected EXISTS after NOT in CREATE DATABASE"), LAMBDA ine :
    Then(expect(toks, ine.pos, "IDENTIFIER",
           "Expected database name after CREATE DATABASE"), LAMBDA name :
      LET stmt == [CreateDatabaseStmt EXCEPT !.if_not_exists = ine.val,
                                             !.name = name.val.literal]
          lparen == match(toks, name.pos, "LPAREN")
      IN  Then(IF lparen.matched THEN DatabaseOptions(toks, lparen.pos, stmt)
               ELSE Ok(lparen.pos, stmt), LAMBDA s :
          Then(expect(toks, s.pos, "RPAREN",
                 "Expected ')' after options in CREATE DATABASE"), LAMBDA r :
            Ok(r.pos, s.val))))))

\* ----------------------------------------------------------- CREATE INDEX
\* one index element: the body of the do-while loop of parse_create_index_stmt
IndexElement(toks, p) ==
    Then(parse_expression(toks, p, 0), LAMBDA expr :
      LET elem0 == IF expr.val.node = "ColumnRef"
                   THEN [IndexElem EXCEPT !.name = Some(expr.val.name)]
                   ELSE [IndexElem EXCEPT !.expr = Some(expr.val)]
          collate == match(toks, expr.pos, "COLLATE")
          collation ==
            IF collate.matched
            THEN Then(expect(toks, collate.pos, "IDENTIFIER",
                        "Expected collation name after COLLATE in index element"),
                      LAMBDA c : Ok(c.pos, [elem0 EXCEPT !.collation = Some(c.val.literal)]))
            ELSE Ok(collate.pos, elem0)
      IN  Then(collation, LAMBDA e1 :
            LET op_class ==
                  IF current(toks, e1.pos).type = "IDENTIFIER"
                  THEN Then(expect(toks, e1.pos, "IDENTIFIER",
                              "Expected operator class name in index element"),
                            LAMBDA o :
                              Ok(o.pos, [e1.val EXCEPT !.op_class = Some(o.val.literal)]))
                  ELSE e1
            IN  Then(op_class, LAMBDA e2 :
                  LET asc == match(toks, e2.pos, "ASC")
                      desc == match(toks, e2.pos, "DESC")
                      e3 == IF asc.matched
                            THEN Ok(asc.pos, [e2.val EXCEPT !.ordering = "ASC"])
                            ELSE IF desc.matched
                            THEN Ok(desc.pos, [e2.val EXCEPT !.ordering = "DESC"])
                            ELSE Ok(desc.pos, e2.val)
                      nulls == match(toks, e3.pos, "NULLS")
                      first == match(toks, nulls.pos, "FIRST")
                      last == match(toks, nulls.pos, "LAST")
                  IN  IF ~nulls.matched THEN Ok(nulls.pos, e3.val)
                      ELSE IF first.matched
                      THEN Ok(first.pos, [e3.val EXCEPT !.nulls_first = Some(TRUE)])
                      ELSE IF last.matched
                      THEN Ok(last.pos, [e3.val EXCEPT !.nulls_first = Some(FALSE)])
                      ELSE Throw(nulls.pos,
                                 "Expected FIRST or LAST after NULLS in index element",
                                 current(toks, nulls.pos)))))

\* the do-while loop over the comma-separated index elements
RECURSIVE IndexElements(_, _, _)
IndexElements(toks, p, stmt) ==
    Then(IndexElement(toks, p), LAMBDA elem :
      LET comma == match(toks, elem.pos, "COMMA")
          stmt1 == [stmt EXCEPT !.params = Append(@, elem.val)]
      IN  IF comma.matched THEN IndexElements(toks, comma.pos, stmt1)
          ELSE Ok(comma.pos, stmt1))

parse_create_index_stmt(toks, p) ==
    LET unique == match(toks, p, "UNIQUE")
    IN  Then(expect(toks, unique.pos, "INDEX", "Expected INDEX keyword in CREATE INDEX"),
             LAMBDA i :
          LET concurrently == match(toks, i.pos, "CONCURRENTLY")
          IN  Then(IfNotExists(toks, concurrently.pos,
                     "Expected NOT after IF in CREATE INDEX",
                     "Expected EXISTS after NOT in CREATE INDEX"), LAMBDA ine :
              Then(expect(toks, ine.pos, "IDENTIFIER",
                     "Expected index name in CREATE INDEX"), LAMBDA name :
              Then(expect(toks, name.pos, "ON", "Expected ON keyword in CREATE INDEX"),
                   LAMBDA on :
                LET only == match(toks, on.pos, "ONLY")
                IN  Then(expect(toks, only.pos, "IDENTIFIER",
                           "Expected table name in CREATE INDEX"), LAMBDA table :
                      LET using == match(toks, table.pos, "USING")
                          method ==
                            IF using.matched
                            THEN Then(expect(toks, using.pos, "IDENTIFIER",
                                        "Expected index method name after USING in CREATE INDEX"),
                                      LAMBDA m : Ok(m.pos, Some(m.val.literal)))
                            ELSE Ok(using.pos, None)
                      IN  Then(method, LAMBDA m :
                          Then(expect(toks, m.pos, "LPAREN",
                                 "Expected '(' before index columns in CREATE INDEX"),
                               LAMBDA l :
                          Then(IndexElements(toks, l.pos,
                                 [CreateIndexStmt EXCEPT
                                    !.unique = unique.matched,
                                    !.concurrently = concurrently.matched,
                                    !.if_not_exists = ine.val,
                                    !.index_name = name.val.literal,
                                    !.only = only.matched,
                                    !.table_name = table.val.literal,
                                    !.method = m.val]), LAMBDA s :
                            LET where == match(toks, s.pos, "WHERE")
                                cond ==
                                  IF where.matched
                                  THEN Then(parse_expression(toks, where.pos, 0),
                                            LAMBDA e :
                                              Ok(e.pos, [s.val EXCEPT !.where = Some(e.val)]))
                                  ELSE Ok(where.pos, s.val)
                            IN  Then(cond, LAMBDA w :
                                  LET tablespace == match(toks, w.pos, "TABLESPACE")
                                  IN  IF tablespace.matched
                                      THEN Then(expect(toks, tablespace.pos, "IDENTIFIER",
                                                  "Expected tablespace name after TABLESPACE in CREATE INDEX"),
                                                LAMBDA t :
                                                  Ok(t.pos, [w.val EXCEPT !.tablespace =
                                                                        Some(t.val.literal)]))
                                      ELSE Ok(tablespace.pos, w.val))))))))))

\* --------------------------------------------------------- CREATE TRIGGER
\* what stmt.update_of_columns->emplace_back(...) can do while the optional
\* holds no vector (undefined behaviour): the process is terminated, or the
\* write lands in the optional's unengaged storage and the field stays absent
UndefinedOutcomes == {"terminated", "unengaged"}

\* the process terminated by a failed library assertion or a memory fault
Terminated(p) == ThrowPlain(p, "terminated")

\* update_of_columns->emplace_back(name) under the outcome ub
EmplaceUpdateOfColumn(p, stmt, name, ub) ==
    IF stmt.update_of_columns # None
    THEN Ok(p, [stmt EXCEPT !.update_of_columns = Some(Append(@[1], name))])
    ELSE IF ub = "terminated" THEN Terminated(p)
    ELSE Ok(p, stmt)

\* the do-while loop over the columns after UPDATE OF
RECURSIVE UpdateOfColumns(_, _, _, _)
UpdateOfColumns(toks, p, stmt, ub) ==
    Then(expect(toks, p, "IDENTIFIER",
           "Expected column name after UPDATE OF in CREATE TRIGGER"), LAMBDA col_token :
    Then(EmplaceUpdateOfColumn(col_token.pos, stmt, col_token.val.literal, ub),
         LAMBDA s :
      LET comma == match(toks, s.pos, "COMMA")
      IN  IF comma.matched THEN UpdateOfColumns(toks, comma.pos, s.val, ub)
          ELSE Ok(comma.pos, s.val)))

\* the do-while loop over the events joined by OR
RECURSIVE TriggerEvents(_, _, _, _)
TriggerEvents(toks, p, stmt, ub) ==
    LET insert == match(toks, p, "INSERT")
        update == match(toks, p, "UPDATE")
        delete == match(toks, p, "DELETE")
        truncate == match(toks, p, "TRUNCATE")
        event ==
          IF insert.matched
          THEN Ok(insert.pos, [stmt EXCEPT !.events = Append(@, "INSERT")])
          ELSE IF update.matched
          THEN LET of == match(toks, update.pos, "OF")
                   stmt1 == [stmt EXCEPT !.events = Append(@, "UPDATE")]
               IN  IF of.matched THEN UpdateOfColumns(toks, of.pos, stmt1, ub)
                   ELSE Ok(of.pos, stmt1)
          ELSE IF delete.matched
          THEN Ok(delete.pos, [stmt EXCEPT !.events = Append(@, "DELETE")])
          ELSE IF truncate.matched
          THEN Ok(truncate.pos, [stmt EXCEPT !.events = Append(@, "TRUNCATE")])
          ELSE Throw(p, "Expected trigger event (INSERT, UPDATE, DELETE, TRUNCATE) in CREATE TRIGGER",
                     current(toks, p))
    IN  Then(event, LAMBDA s :
          LET or == match(toks, s.pos, "OR")
          IN  IF or.matched THEN TriggerEvents(toks, or.pos, s.val, ub)
              ELSE Ok(or.pos, s.val))

\* the do-while loop over the function arguments
RECURSIVE FunctionArgs(_, _, _)
FunctionArgs(toks, p, stmt) ==
    Then(parse_expression(toks, p, 0), LAMBDA arg :
      LET comma == match(toks, arg.pos, "COMMA")
          stmt1 == [stmt EXCEPT !.function_args = Append(@, arg.val)]
      IN  IF comma.matched THEN FunctionArgs(toks, comma.pos, stmt1)
          ELSE Ok(comma.pos, stmt1))

\* parse_create_trigger_stmt from ON to its return
TriggerTarget(toks, p, stmt) ==
    Then(expect(toks, p, "ON", "Expected ON keyword in CREATE TRIGGER"), LAMBDA on :
    Then(expect(toks, on.pos, "IDENTIFIER", "Expected table name in CREATE TRIGGER"),
         LAMBDA table :
    Then(expect(toks, table.pos, "EXECUTE", "Expected EXECUTE keyword in CREATE TRIGGER"),
         LAMBDA ex :
    Then(expect(toks, ex.pos, "FUNCTION", "Expected FUNCTION keyword in CREATE TRIGGER"),
         LAMBDA fn :
    Then(expect(toks, fn.pos, "IDENTIFIER", "Expected function name in CREATE TRIGGER"),
         LAMBDA name :
      LET stmt1 == [stmt EXCEPT !.table_name = table.val.literal,
                                !.function_name = name.val.literal]
          lparen == match(toks, name.pos, "LPAREN")
      IN  IF ~lparen.matched THEN Ok(lparen.pos, stmt1)
          ELSE Then(IF current(toks, lparen.pos).type # "RPAREN"
                    THEN FunctionArgs(toks, lparen.pos, stmt1)
                    ELSE Ok(lparen.pos, stmt1), LAMBDA s :
               Then(expect(toks, s.pos, "RPAREN",
                      "Expected ')' after function arguments in CREATE TRIGGER"),
                    LAMBDA r : Ok(r.pos, s.val))))))))

\* ub: the outcome of the undefined behaviour, should the parse run into it
parse_create_trigger_stmt(toks, p, ub) ==
    Then(expect(toks, p, "TRIGGER", "Expected TRIGGER keyword in CREATE TRIGGER"),
         LAMBDA t :
    Then(expect(toks, t.pos, "IDENTIFIER", "Expected trigger name in CREATE TRIGGER"),
         LAMBDA name :
      LET before == match(toks, name.pos, "BEFORE")
          after == match(toks, name.pos, "AFTER")
          instead == match(toks, name.pos, "INSTEAD")
          timing ==
            IF before.matched THEN Ok(before.pos, "BEFORE")
            ELSE IF after.matched THEN Ok(after.pos, "AFTER")
            ELSE IF instead.matched
            THEN Then(expect(toks, instead.pos, "OF",
                        "Expected OF after INSTEAD in CREATE TRIGGER"),
                      LAMBDA of : Ok(of.pos, "INSTEAD_OF"))
            ELSE Throw(name.pos,
                       "Expected trigger timing (BEFORE, AFTER, INSTEAD OF) in CREATE TRIGGER",
                       current(toks, name.pos))
      IN  Then(timing, LAMBDA tm :
          Then(TriggerEvents(toks, tm.pos,
                 [CreateTriggerStmt EXCEPT !.trigger_name = name.val.literal,
                                           !.timing = tm.val], ub), LAMBDA ev :
            LET for == match(toks, ev.pos, "FOR")
                each == match(toks, for.pos, "EACH")
                row == match(toks, each.pos, "ROW")
                statement == match(toks, each.pos, "STATEMENT")
                for_each ==
                  IF ~for.matched THEN Ok(for.pos, ev.val)
                  ELSE IF ~each.matched
                  THEN Throw(for.pos, "Expected EACH after FOR in CREATE TRIGGER",
                             current(toks, for.pos))
                  ELSE IF row.matched
                  THEN Ok(row.pos, [ev.val EXCEPT !.for_each = "ROW"])
                  ELSE IF statement.matched
                  THEN Ok(statement.pos, [ev.val EXCEPT !.for_each = "STATEMENT"])
                  ELSE Throw(each.pos,
                             "Expected ROW or STATEMENT after EACH in CREATE TRIGGER",
                             current(toks, each.pos))
            IN  Then(for_each, LAMBDA fe :
                  LET when == match(toks, fe.pos, "WHEN")
                      cond ==
                        IF ~when.matched THEN Ok(when.pos, fe.val)
                        ELSE Then(expect(toks, when.pos, "LPAREN",
                                    "Expected '(' after WHEN in CREATE TRIGGER"),
                                  LAMBDA l :
                             Then(parse_expression(toks, l.pos, 0), LAMBDA e :
                             Then(expect(toks, e.pos, "RPAREN",
                                    "Expected ')' after WHEN expression in CREATE TRIGGER"),
                                  LAMBDA r :
                               Ok(r.pos, [fe.val EXCEPT !.when = Some(e.val)]))))
                  IN  Then(cond, LAMBDA w : TriggerTarget(toks, w.pos, w.val)))))))

\* ------------------------------------------------ CREATE VIEW and SCHEMA
parse_create_view_stmt(toks, p) ==
    LET or == match(toks, p, "OR")
        replace == IF or.matched
                   THEN Then(expect(toks, or.pos, "REPLACE",
                               "Expected REPLACE after OR in CREATE VIEW"),
                             LAMBDA r : Ok(r.pos, TRUE))
                   ELSE Ok(or.pos, FALSE)
    IN  Then(replace, LAMBDA rp :
          LET temporary == match(toks, rp.pos, "TEMPORARY")
              recursive == match(toks, temporary.pos, "RECURSIVE")
          IN  Then(expect(toks, recursive.pos, "VIEW",
                     "Expected VIEW keyword in CREATE VIEW"), LAMBDA v :
              Then(expect(toks, v.pos, "IDENTIFIER",
                     "Expected view name in CREATE VIEW"), LAMBDA name :
                LET lparen == match(toks, name.pos, "LPAREN")
                    columns ==
                      IF lparen.matched
                      THEN IdentifierList(toks, lparen.pos, <<>>,
                             "Expected column name in view column list")
                      ELSE Ok(lparen.pos, <<>>)
                IN  Then(columns, LAMBDA cols :
                    Then(expect(toks, cols.pos, "AS",
                           "Expected AS keyword in CREATE VIEW"), LAMBDA as :
                    Then(parse_select_stmt(toks, as.pos), LAMBDA select :
                      Ok(select.pos,
                         [CreateViewStmt EXCEPT !.or_replace = rp.val,
                                                !.temporary = temporary.matched,
                                                !.recursive = recursive.matched,
                                                !.view_name = name.val.literal,
                                                !.columns = cols.val,
                                                !.select_stmt = select.val])))))))

\* the body of the while loop over the elements of CREATE SCHEMA
SchemaElement(toks, p, stmt, ub) ==
    LET type == current(toks, p).type
    IN  Then(
          CASE type = "TABLE" -> parse_create_table_stmt(toks, p)
            [] type = "INDEX" -> parse_create_index_stmt(toks, p)
            [] type = "VIEW" -> parse_create_view_stmt(toks, p)
            [] type = "SEQUENCE" -> parse_create_sequence_stmt(toks, p)
            [] type = "TRIGGER" -> parse_create_trigger_stmt(toks, p, ub)
            [] OTHER -> Throw(p, "Unknown schema element type in CREATE SCHEMA",
                              current(toks, p)),
          LAMBDA element :
            Ok(element.pos,
               [stmt EXCEPT !.schema_elements =
                  IF @ = None THEN Some(<<element.val>>)
                  ELSE Some(Append(@[1], element.val))]))

RECURSIVE SchemaElements(_, _, _, _)
SchemaElements(toks, p, stmt, ub) ==
    IF current(toks, p).type \in {"SEMICOLON", "EOF_TOKEN"} THEN Ok(p, stmt)
    ELSE Then(SchemaElement(toks, p, stmt, ub),
              LAMBDA s : SchemaElements(toks, s.pos, s.val, ub))

parse_create_schema_stmt(toks, p, ub) ==
    Then(expect(toks, p, "SCHEMA", "Expected SCHEMA keyword after CREATE"), LAMBDA sc :
    Then(IfNotExists(toks, sc.pos, "Expected NOT after IF in CREATE SCHEMA",
                     "Expected EXISTS after NOT in CREATE SCHEMA"), LAMBDA ine :
    Then(expect(toks, ine.pos, "IDENTIFIER",
           "Expected schema name after CREATE SCHEMA"), LAMBDA name :
      LET stmt == [CreateSchemaStmt EXCEPT !.if_not_exists = ine.val,
                                           !.schema_name = name.val.literal]
          authorization == match(toks, name.pos, "AUTHORIZATION")
          owner ==
            IF authorization.matched
            THEN Then(expect(toks, authorization.pos, "IDENTIFIER",
                        "Expected owner name after AUTHORIZATION in CREATE SCHEMA"),
                      LAMBDA owner_token :
                        Ok(owner_token.pos,
                           [stmt EXCEPT !.authorization = Some(owner_token.val.literal)]))
            ELSE Ok(authorization.pos, stmt)
      IN  Then(owner, LAMBDA s : SchemaElements(toks, s.pos, s.val, ub)))))

\* ----------------------------------------------------------------- CREATE
\* the peek loop of parse_create_stmt: the type of the first token at or
\* after the cursor that is not a modifier
RECURSIVE CreateObjectType(_, _, _)
CreateObjectType(toks, p, offset) ==
    LET type == peek(toks, p, offset).type
    IN  IF type \in {"TEMPORARY", "UNIQUE", "OR", "REPLACE", "CONCURRENTLY"}
        THEN CreateObjectType(toks, p, offset + 1)
        ELSE type

\* called with the cursor just after CREATE
parse_create_stmt(toks, p, ub) ==
    LET type == CreateObjectType(toks, p, 0)
    IN  CASE type = "TABLE" -> parse_create_table_stmt(toks, p)
          [] type = "SEQUENCE" -> parse_create_sequence_stmt(toks, p)
          [] type = "INDEX" -> parse_create_index_stmt(toks, p)
          [] type = "TRIGGER" -> parse_create_trigger_stmt(toks, p, ub)
          [] type = "SCHEMA" -> parse_create_schema_stmt(toks, p, ub)
          [] type = "COLLATION" -> parse_create_collation_stmt(toks, p)
          [] type = "DATABASE" -> parse_create_database_stmt(toks, p)
          [] type = "ROLE" -> parse_create_role_stmt(toks, p)
          [] type = "VIEW" -> parse_create_view_stmt(toks, p)
          [] OTHER -> Throw(p, "Unknown object type in CREATE statement",
                            current(toks, p))

\* ------------------------------------------------------------------ parse
\* a parse_statement that returns an empty statement where it should throw
parse_statement_Lenient(toks, p) ==
    LET type == current(toks, p).type
        p1 == advance(toks, p).pos
    IN  CASE type = "SELECT" -> parse_select_stmt(toks, p1)
          [] type = "INSERT" -> parse_insert_stmt(toks, p1)
          [] type = "CREATE" -> parse_create_table_stmt(toks, p1)
          [] type = "DROP" -> parse_drop_stmt(toks, p1)
          [] type = "ALTER" -> parse_alter_table_stmt(toks, p1)
          [] OTHER -> Ok(p, None)

parse_statement(toks, p) ==
    LET type == current(toks, p).type
        p1 == advance(toks, p).pos
    IN  CASE type = "SELECT" -> parse_select_stmt(toks, p1)
          [] type = "INSERT" -> parse_insert_stmt(toks, p1)
          [] type = "CREATE" -> parse_create_table_stmt(toks, p1)
          [] type = "DROP" -> parse_drop_stmt(toks, p1)
          [] type = "ALTER" -> parse_alter_table_stmt(toks, p1)
          [] OTHER -> Throw(p, "Unsupported statement type", current(toks, p))

\* a loop that returns what it has parsed so far when a statement throws
RECURSIVE ParseLoop_KeepsParsed(_, _, _)
ParseLoop_KeepsParsed(toks, p, statements) ==
    IF is_end(toks, p) THEN Ok(p, statements)
    ELSE LET s == parse_statement(toks, p)
         IN  IF s.ok
             THEN ParseLoop_KeepsParsed(toks, match(toks, s.pos, "SEMICOLON").pos,
                                        Append(statements, s.val))
             ELSE Ok(s.pos, statements)

\* the loop of parse(): statements parsed so far, cursor at p
RECURSIVE ParseLoop(_, _, _)
ParseLoop(toks, p, statements) ==
    IF is_end(toks, p) THEN Ok(p, statements)
    ELSE Then(parse_statement(toks, p), LAMBDA s :
           ParseLoop(toks, match(toks, s.pos, "SEMICOLON").pos,
                     Append(statements, s.val)))

parse(toks, p) == ParseLoop(toks, p, <<>>)

\* ---------------------------------------------------------------- Catalog
TableInfo ==
    [name |-> <<>>, columns |-> <<>>, root_page_id |-> 0, constraints |-> <<>>]

\* an empty std::unordered_map
NoTables == [n \in {} |-> TableInfo]

\* TableInfo info; leaves root_page_id without a value: what is stored is any
\* of the values the memory may hold
IndeterminatePageIds == {0, 1}

\* a create_table that stores the statement again when the name exists and
\* if_not_exists is set
create_table_Overwrites(tbls, stmt, root_page_id) ==
    IF stmt.table_name \in DOMAIN tbls /\ ~stmt.if_not_exists
    THEN [tables |-> tbls,
          result |-> ThrowPlain(0, <<"Table ", stmt.table_name, " already exists">>)]
    ELSE LET info == [TableInfo EXCEPT !.name = stmt.table_name,
                                       !.columns = stmt.columns,
                                       !.root_page_id = root_page_id]
         IN  [tables |-> [n \in DOMAIN tbls \cup {stmt.table_name} |->
                            IF n = stmt.table_name THEN info ELSE tbls[n]],
              result |-> Ok(0, TRUE)]

\* Catalog::create_table: the map afterwards and what the call returned or
\* threw
create_table(tbls, stmt, root_page_id) ==
    IF stmt.table_name \in DOMAIN tbls
    THEN IF stmt.if_not_exists THEN [tables |-> tbls, result |-> Ok(0, TRUE)]
         ELSE [tables |-> tbls,
               result |-> ThrowPlain(0, <<"Table ", stmt.table_name,
                                          " already exists">>)]
    ELSE LET info == [TableInfo EXCEPT !.name = stmt.table_name,
                                       !.columns = stmt.columns,
                                       !.root_page_id = root_page_id]
         IN  [tables |-> [n \in DOMAIN tbls \cup {stmt.table_name} |->
                            IF n = stmt.table_name THEN info ELSE tbls[n]],
              result |-> Ok(0, TRUE)]

\* Catalog::get_table
get_table(tbls, table_name) ==
    IF table_name \in DOMAIN tbls THEN Some(tbls[table_name]) ELSE None

\* ---------------------------------------------------------- state machine
VARIABLES
    form,       \* how the input text was written (a history of the input only)
    input,      \* Lexer::input, the text being lexed
    lexer,      \* the other Lexer fields: position, readPosition, ch, line, column
    tok,        \* the token the last NextToken call returned
    tokens,     \* Parser::tokens, the token buffer
    position,   \* Parser::position, the cursor into tokens
    result,     \* what parse() returned or threw
    phase,      \* "lexer": a Lexer exists; "parser": a Parser was constructed
                \* over it; "parsed": parse() was called
    call,       \* the member function called last and its argument (a history)
    tables,     \* Catalog::tables, table name -> TableInfo
    history     \* the statements create_table was called with, in order

vars ==
    <<form, input, lexer, tok, tokens, position, result, phase, call, tables, history>>

Call(op, arg) == [op |-> op, arg |-> arg]

NoToken == Token("NONE", <<>>, 0, 0)
NoResult == [ok |-> FALSE, pos |-> 0, val |-> None, err |-> NoErr]

\* Lexer::NextToken called by a client of the Lexer
NextToken ==
    /\ phase = "lexer"
    /\ lexer.readPosition <= Len(input) + MaxExtraCalls
    /\ LET r == NextTokenOf(input, lexer)
       IN  /\ tok' = r.tok
           /\ lexer' = r.lex
    /\ call' = Call("NextToken", None)
    /\ UNCHANGED <<form, input, tokens, position, result, phase, tables, history>>

\* a loop that leaves the EOF_TOKEN out of the buffer
RECURSIVE DrainLexer_NoTerminator(_, _, _)
DrainLexer_NoTerminator(inp, L, buffer) ==
    LET r == NextTokenOf(inp, L)
    IN  IF r.tok.type # "EOF_TOKEN"
        THEN DrainLexer_NoTerminator(inp, r.lex, Append(buffer, r.tok))
        ELSE [tokens |-> buffer, lex |-> r.lex, token |-> r.tok]

\* the loop of Parser::Parser: tokens up to and including the first EOF_TOKEN
RECURSIVE DrainLexer(_, _, _)
DrainLexer(inp, L, buffer) ==
    LET r == NextTokenOf(inp, L)
    IN  IF r.tok.type # "EOF_TOKEN" THEN DrainLexer(inp, r.lex, Append(buffer, r.tok))
        ELSE [tokens |-> Append(buffer, r.tok), lex |-> r.lex, token |-> r.tok]

\* Parser::Parser(lexer)
ParserConstruct ==
    /\ phase = "lexer"
    /\ LET d == DrainLexer(input, lexer, <<>>)
       IN  /\ tokens' = d.tokens
           /\ lexer' = d.lex
           /\ tok' = d.token
    /\ position' = 0
    /\ phase' = "parser"
    /\ call' = Call("Parser", None)
    /\ UNCHANGED <<form, input, result, tables, history>>

\* Parser::parse()
Parse ==
    /\ phase = "parser"
    /\ result' = parse(tokens, position)
    /\ position' = result'.pos
    /\ phase' = "parsed"
    /\ call' = Call("parse", None)
    /\ UNCHANGED <<form, input, lexer, tok, tokens, tables, history>>

\* Parser::parse() one step of its loop at a time: the test of the loop
\* condition and, when the input has not ended, one parse_statement and
\* match(SEMICOLON); result holds the statements pushed so far
ParseIteration ==
    /\ phase \in {"parser", "parsing"}
    /\ LET statements == IF phase = "parser" THEN <<>> ELSE result.val
       IN  IF is_end(tokens, position)
           THEN /\ result' = Ok(position, statements)
                /\ phase' = "parsed"
           ELSE LET s == parse_statement(tokens, position)
                IN  IF s.ok
                    THEN /\ result' = Ok(match(tokens, s.pos, "SEMICOLON").pos,
                                         Append(statements, s.val))
                         /\ phase' = "parsing"
                    ELSE /\ result' = s
                         /\ phase' = "parsed"
    /\ position' = result'.pos
    /\ call' = Call("parse", None)
    /\ UNCHANGED <<form, input, lexer, tok, tokens, tables, history>>

\* Parser::parse_create_stmt() called as it is written to be: on a Parser whose
\* match(CREATE) has just consumed the leading CREATE; result holds the
\* statement returned or the error thrown
ParseCreateStmt ==
    /\ phase = "parser"
    /\ match(tokens, position, "CREATE").matched
    /\ \E ub \in UndefinedOutcomes :
         result' = parse_create_stmt(tokens, match(tokens, position, "CREATE").pos, ub)
    /\ position' = result'.pos
    /\ phase' = "parsed"
    /\ call' = Call("parse_create_stmt", None)
    /\ UNCHANGED <<form, input, lexer, tok, tokens, tables, history>>

\* the token kinds and the offsets the primitives are called with
\* the CREATE TABLE statements and the names handed to a Catalog
CatalogNames == {<<"t">>, <<"u">>}
CatalogColumns ==
    {<<[ColumnDef EXCEPT !.name = <<"i","d">>, !.type = "INTEGER", !.primary_key = TRUE]>>,
     <<[ColumnDef EXCEPT !.name = <<"i","d">>, !.type = "INTEGER"],
       [ColumnDef EXCEPT !.name = <<"n","a","m","e">>, !.type = "TEXT", !.not_null = TRUE]>>}
CatalogStatements ==
    { [CreateTableStmt EXCEPT !.table_name = n, !.columns = cs, !.if_not_exists = ine] :
        n \in CatalogNames, cs \in CatalogColumns, ine \in BOOLEAN }

\* Catalog::create_table called with a CREATE TABLE statement
CreateTable ==
    /\ phase = "catalog"
    /\ Len(history) < MaxCatalogCalls
    /\ \E stmt \in CatalogStatements, root_page_id \in IndeterminatePageIds :
         LET c == create_table(tables, stmt, root_page_id)
         IN  /\ tables' = c.tables
             /\ result' = c.result
             /\ call' = Call("create_table", stmt)
             /\ history' = Append(history, stmt)
    /\ UNCHANGED <<form, input, lexer, tok, tokens, position, phase>>

\* Catalog::get_table called with a table name
GetTable ==
    /\ phase = "catalog"
    /\ \E table_name \in CatalogNames :
         /\ result' = Ok(0, get_table(tables, table_name))
         /\ call' = Call("get_table", table_name)
    /\ UNCHANGED <<form, input, lexer, tok, tokens, position, phase, tables, history>>

MatchTypes == {"SELECT", "IDENTIFIER", "COMMA", "SEMICOLON", "EOF_TOKEN"}
MaxOffset == 3

\* Parser::current() called on a constructed Parser
Current ==
    /\ phase = "parser"
    /\ tok' = current(tokens, position)
    /\ call' = Call("current", None)
    /\ UNCHANGED <<form, input, lexer, tokens, position, result, phase, tables,
                   history>>

\* Parser::peek(offset)
Peek ==
    /\ phase = "parser"
    /\ \E offset \in 0..MaxOffset :
         /\ tok' = peek(tokens, position, offset)
         /\ call' = Call("peek", offset)
    /\ UNCHANGED <<form, input, lexer, tokens, position, result, phase, tables,
                   history>>

\* Parser::advance()
Advance ==
    /\ phase = "parser"
    /\ tok' = advance(tokens, position).tok
    /\ position' = advance(tokens, position).pos
    /\ call' = Call("advance", None)
    /\ UNCHANGED <<form, input, lexer, tokens, result, phase, tables, history>>

\* Parser::match(type); result holds the bool returned
Match ==
    /\ phase = "parser"
    /\ \E type \in MatchTypes :
         /\ result' = Ok(match(tokens, position, type).pos,
                         match(tokens, position, type).matched)
         /\ call' = Call("match", type)
    /\ position' = result'.pos
    /\ UNCHANGED <<form, input, lexer, tok, tokens, phase, tables, history>>

\* Parser::expect(type, error_msg); result holds the token returned or the
\* error thrown
Expect ==
    /\ phase = "parser"
    /\ \E type \in MatchTypes :
         /\ result' = expect(tokens, position, type, "Expected token")
         /\ call' = Call("expect", type)
    /\ position' = result'.pos
    /\ UNCHANGED <<form, input, lexer, tok, tokens, phase, tables, history>>

\* ------------------------------------------------------------------ inputs
\* all sequences over alphabet of length at most n
RECURSIVE Strings(_, _)
Strings(alphabet, n) ==
    IF n = 0 THEN {<<>>}
    ELSE LET shorter == Strings(alphabet, n - 1)
         IN  shorter \cup { Append(s, c) : s \in { t \in shorter : Len(t) = n - 1 },
                                           c \in alphabet }

\* words separated by single spaces
RECURSIVE Text(_)
Text(words) ==
    IF words = <<>> THEN <<>>
    ELSE IF Len(words) = 1 THEN Head(words)
    ELSE Head(words) \o <<" ">> \o Text(Tail(words))

\* the word lists of items, separated by the word sep
RECURSIVE Join(_, _)
Join(items, sep) ==
    IF items = <<>> THEN <<>>
    ELSE IF Len(items) = 1 THEN Head(items)
    ELSE Head(items) \o <<sep>> \o Join(Tail(items), sep)

w_SELECT == <<"S","E","L","E","C","T">>
w_FROM == <<"F","R","O","M">>
w_WHERE == <<"W","H","E","R","E">>
w_a == <<"a">>
w_age == <<"a","g","e">>
w_name == <<"n","a","m","e">>
w_users == <<"u","s","e","r","s">>
w_t == <<"t">>
w_1 == <<"1">>
w_30 == <<"3","0">>
w_100 == <<"1","0","0">>
w_9999999999 == <<"9","9","9","9","9","9","9","9","9","9">>
w_CREATE == <<"C","R","E","A","T","E">>
w_SEQUENCE == <<"S","E","Q","U","E","N","C","E">>
w_INCREMENT == <<"I","N","C","R","E","M","E","N","T">>
w_BY == <<"B","Y">>
w_START == <<"S","T","A","R","T">>
w_WITH == <<"W","I","T","H">>
w_TABLE == <<"T","A","B","L","E">>
w_INTEGER == <<"I","N","T","E","G","E","R">>
w_TEXT == <<"T","E","X","T">>
w_PRIMARY == <<"P","R","I","M","A","R","Y">>
w_KEY == <<"K","E","Y">>
w_NOT == <<"N","O","T">>
w_NULL == <<"N","U","L","L">>
w_UNIQUE == <<"U","N","I","Q","U","E">>
w_INSERT == <<"I","N","S","E","R","T">>
w_INTO == <<"I","N","T","O">>
w_VALUES == <<"V","A","L","U","E","S">>
w_s == <<"s">>
w_c == <<"c">>
w_DROP == <<"D","R","O","P">>
w_ALTER == <<"A","L","T","E","R">>
w_COLUMN == <<"C","O","L","U","M","N">>
w_TYPE == <<"T","Y","P","E">>
w_SET == <<"S","E","T">>
w_DEFAULT == <<"D","E","F","A","U","L","T">>
w_RENAME == <<"R","E","N","A","M","E">>
w_TO == <<"T","O">>
w_IF == <<"I","F">>
w_EXISTS == <<"E","X","I","S","T","S">>
w_CONCURRENTLY == <<"C","O","N","C","U","R","R","E","N","T","L","Y">>
w_CASCADE == <<"C","A","S","C","A","D","E">>
w_RESTRICT == <<"R","E","S","T","R","I","C","T">>
w_TEMPORARY == <<"T","E","M","P","O","R","A","R","Y">>

\* the spelling of a keyword in the keyword table
KeywordWord(type) == CHOOSE w \in DOMAIN keywords : keywords[w] = type
w_r == <<"r">>
w_pw_quoted == <<"'", "p", "w", "'">>
w_5 == <<"5">>
w_i == <<"i">>
w_m == <<"m">>
w_d == <<"d">>
w_o == <<"o">>
w_g == <<"g">>
w_f == <<"f">>
w_e_quoted == <<"'", "e", "'">>
w_id == <<"i","d">>

\* the concatenation of a sequence of word lists
RECURSIVE Concat(_)
Concat(lists) == IF lists = <<>> THEN <<>> ELSE Head(lists) \o Concat(Tail(lists))

\* one option of CREATE SEQUENCE as written, the sign joined to its number
OptionWords(o) ==
    (IF o.option = "INCREMENT" THEN <<w_INCREMENT, w_BY>> ELSE <<w_START, w_WITH>>)
    \o <<IF o.negative THEN <<"-">> \o o.number ELSE o.number>>

\* the words of a column constraint
FlagWords ==
    ("NOT" :> <<w_NOT, w_NULL>>) @@ ("PRIMARY" :> <<w_PRIMARY, w_KEY>>)
    @@ ("UNIQUE" :> <<w_UNIQUE>>)

\* one column of CREATE TABLE as written
ColumnWords(c) ==
    <<c.name, c.type>> \o Concat([i \in DOMAIN c.flags |-> FlagWords[c.flags[i]]])

\* a comma-separated list of items in parentheses
ParenList(items) == <<<<"(">>>> \o Join(items, <<",">>) \o <<<<")">>>>

\* an expression as written: a leaf word or an operator with two operands
Leaf(word) == [node |-> "Leaf", word |-> word]
Node(op, left, right) == [node |-> "Node", op |-> op, left |-> left, right |-> right]
Star == [node |-> "Star"]

\* the five operators that have both a token and a BinaryOp
OpWord ==
    ("PLUS" :> <<"+">>) @@ ("MINUS" :> <<"-">>) @@ ("MUL" :> <<"*">>)
    @@ ("MOD" :> <<"%">>) @@ ("EQ" :> <<"=">>)
Ops == DOMAIN OpWord

\* binding strength of the reference grammar
Level(op) == CASE op \in {"MUL", "MOD"} -> 5
               [] op \in {"PLUS", "MINUS"} -> 4
               [] op = "EQ" -> 3

\* the trees with exactly n operators over the given leaf words
RECURSIVE TreesWith(_, _)
TreesWith(n, leaves) ==
    IF n = 0 THEN { Leaf(w) : w \in leaves }
    ELSE UNION { { Node(op, l, r) : op \in Ops, l \in TreesWith(i, leaves),
                                    r \in TreesWith(n - 1 - i, leaves) } :
                 i \in 0..(n - 1) }

TreesUpTo(n, leaves) == UNION { TreesWith(i, leaves) : i \in 0..n }

\* written with every operand that is not a leaf in parentheses
RECURSIVE RenderFull(_)
RenderFull(t) ==
    IF t.node = "Leaf" THEN <<t.word>>
    ELSE LET operand(x) == IF x.node = "Leaf" THEN <<x.word>>
                           ELSE <<<<"(">>>> \o RenderFull(x) \o <<<<")">>>>
         IN  operand(t.left) \o <<OpWord[t.op]>> \o operand(t.right)

\* written with parentheses only where the reference grammar needs them
RECURSIVE RenderMin(_)
RenderMin(t) ==
    IF t.node = "Leaf" THEN <<t.word>>
    ELSE LET paren(x) == <<<<"(">>>> \o RenderMin(x) \o <<<<")">>>>
             left == IF t.left.node = "Node" /\ Level(t.left.op) < Level(t.op)
                     THEN paren(t.left) ELSE RenderMin(t.left)
             right == IF t.right.node = "Node" /\ Level(t.right.op) <= Level(t.op)
                      THEN paren(t.right) ELSE RenderMin(t.right)
         IN  left \o <<OpWord[t.op]>> \o right

\* the value of the number words used as leaves
NumberValue ==
    (<<"1">> :> 1) @@ (<<"2">> :> 2) @@ (<<"3">> :> 3) @@ (<<"3","0">> :> 30)
    @@ (<<"1","0","0">> :> 100)

\* the tree the parser is to build for an expression as written
RECURSIVE TreeOf(_)
TreeOf(t) ==
    IF t.node = "Leaf"
    THEN IF t.word \in DOMAIN NumberValue
         THEN LiteralValue("INTEGER", variant("int", NumberValue[t.word]))
         ELSE ColumnRef(t.word)
    ELSE BinaryOp(t.op, TreeOf(t.left), TreeOf(t.right))

\* CREATE ROLE r [WITH option ...] [;]: each option as written, the field it
\* is to set and the value
RoleFlag(type, field, value) ==
    [words |-> <<KeywordWord(type)>>, field |-> field, value |-> value]
RoleOptionsWritten ==
    <<RoleFlag("LOGIN", "login", TRUE), RoleFlag("NO_LOGIN", "login", FALSE),
     RoleFlag("SUPERUSER", "superuser", TRUE), RoleFlag("NO_INHERIT", "inherit", FALSE),
     [words |-> <<KeywordWord("PASSWORD"), w_pw_quoted>>,
      field |-> "password", value |-> Some(<<"p", "w">>)],
     [words |-> <<KeywordWord("CONNECTION"), KeywordWord("LIMIT"), w_5>>,
      field |-> "conn_limit", value |-> Some(5)],
     [words |-> <<KeywordWord("CONNECTION"), KeywordWord("LIMIT"), <<"-">>, w_1>>,
      field |-> "conn_limit", value |-> Some(-1)]>>
\* the numeric options of CREATE SEQUENCE as written
IntegerOptionWords ==
    [INCREMENT |-> <<w_INCREMENT, w_BY>>, START |-> <<w_START, w_WITH>>,
     MINVALUE |-> <<KeywordWord("MINVALUE")>>, MAXVALUE |-> <<KeywordWord("MAXVALUE")>>,
     CACHE |-> <<KeywordWord("CACHE")>>]

\* the options of a CREATE DATABASE list as written, the field each is to
\* set and the value
DatabaseOptionsWritten ==
    <<[words |-> <<KeywordWord("OWNER"), <<"=">>, w_o>>,
       field |-> "user_name", value |-> w_o],
      [words |-> <<KeywordWord("ENCODING"), <<"=">>, w_e_quoted>>,
       field |-> "encoding", value |-> <<"e">>],
      [words |-> <<KeywordWord("CONNECTION_LIMIT"), <<"=">>, w_5>>,
       field |-> "conn_limit", value |-> 5],
      [words |-> <<KeywordWord("ALLOW_CONNECTIONS"), <<"=">>, <<"T","R","U","E">>>>,
       field |-> "allow_conn", value |-> TRUE],
      [words |-> <<KeywordWord("ALLOW_CONNECTIONS"), <<"=">>, <<"f","a","l","s","e">>>>,
       field |-> "allow_conn", value |-> FALSE]>>

\* the events of a CREATE TRIGGER as written and the UPDATE OF columns of each
TriggerEventsWritten ==
    <<[words |-> <<w_INSERT>>, event |-> "INSERT", of |-> <<>>],
      [words |-> <<KeywordWord("UPDATE")>>, event |-> "UPDATE", of |-> <<>>],
      [words |-> <<KeywordWord("DELETE")>>, event |-> "DELETE", of |-> <<>>],
      [words |-> <<KeywordWord("UPDATE"), KeywordWord("OF"), w_a>>,
       event |-> "UPDATE", of |-> <<w_a>>],
      [words |-> <<KeywordWord("UPDATE"), KeywordWord("OF"), w_a, <<",">>, w_c>>,
       event |-> "UPDATE", of |-> <<w_a, w_c>>]>>

\* the words of a form
RECURSIVE Words(_)
Words(f) ==
    CASE f.kind = "words" -> f.words
      [] f.kind = "batch" ->
           Concat([i \in DOMAIN f.statements |-> Words(f.statements[i])])
      [] f.kind = "chain" ->
           <<w_SELECT>> \o [i \in 1..(2 * Len(f.ops) + 1) |->
                              IF i % 2 = 1 THEN f.operands[(i + 1) \div 2]
                              ELSE OpWord[f.ops[i \div 2]]]
      [] f.kind = "parenthesized" -> <<w_SELECT>> \o RenderFull(f.tree)
      [] f.kind = "select" ->
           <<w_SELECT>>
           \o Join([i \in DOMAIN f.projections |->
                      IF f.projections[i].node = "Star" THEN <<<<"*">>>>
                      ELSE RenderMin(f.projections[i])], <<",">>)
           \o (IF f.tables = <<>> THEN <<>>
               ELSE <<w_FROM>> \o Join([i \in DOMAIN f.tables |-> <<f.tables[i]>>], <<",">>))
           \o (IF f.where = None THEN <<>> ELSE <<w_WHERE>> \o RenderMin(f.where[1]))
           \o (IF f.semicolon THEN <<<<";">>>> ELSE <<>>)
      [] f.kind = "sequence" ->
           <<w_CREATE, w_SEQUENCE, f.name>>
           \o Concat([i \in DOMAIN f.options |-> OptionWords(f.options[i])])
           \o (IF f.semicolon THEN <<<<";">>>> ELSE <<>>)
      [] f.kind = "table" ->
           <<w_CREATE, w_TABLE, f.name>>
           \o ParenList([i \in DOMAIN f.columns |-> ColumnWords(f.columns[i])])
           \o <<<<";">>>>
      [] f.kind = "drop" ->
           <<w_DROP, KeywordWord(f.type)>>
           \o (IF f.concurrently THEN <<w_CONCURRENTLY>> ELSE <<>>)
           \o (IF f.if_exists THEN <<w_IF, w_EXISTS>> ELSE <<>>)
           \o Join([i \in DOMAIN f.names |-> <<f.names[i]>>], <<",">>)
           \o (IF f.tail = "NONE" THEN <<>> ELSE <<KeywordWord(f.tail)>>)
           \o (IF f.semicolon THEN <<<<";">>>> ELSE <<>>)
      [] f.kind = "alter_column" ->
           <<w_ALTER, w_TABLE, w_t, w_ALTER, w_COLUMN, w_c>> \o f.continuation
      [] f.kind = "dispatch" -> f.words
      [] f.kind = "integer" ->
           (IF f.option = "SELECT" THEN <<w_SELECT>>
            ELSE <<w_CREATE, w_SEQUENCE, w_s>> \o IntegerOptionWords[f.option])
           \o (IF f.negative THEN <<<<"-">>>> ELSE <<>>)
           \o <<f.number>>
           \o (IF f.semicolon THEN <<<<";">>>> ELSE <<>>)
      [] f.kind = "index" ->
           <<w_CREATE>> \o (IF f.unique THEN <<w_UNIQUE>> ELSE <<>>)
           \o <<KeywordWord("INDEX")>>
           \o (IF f.concurrently THEN <<w_CONCURRENTLY>> ELSE <<>>)
           \o (IF f.if_not_exists THEN <<w_IF, w_NOT, w_EXISTS>> ELSE <<>>)
           \o <<w_i, KeywordWord("ON")>>
           \o (IF f.only THEN <<KeywordWord("ONLY")>> ELSE <<>>)
           \o <<w_t>>
           \o (IF f.using THEN <<KeywordWord("USING"), w_m>> ELSE <<>>)
           \o <<<<"(">>>>
           \o Join([k \in DOMAIN f.elements |-> <<f.elements[k]>>], <<",">>)
           \o (IF f.closed THEN <<<<")">>>> ELSE <<>>)
           \o (IF f.where THEN <<w_WHERE, w_a, <<"=">>, w_1>> ELSE <<>>)
           \o (IF f.tablespace THEN <<KeywordWord("TABLESPACE"), w_s>> ELSE <<>>)
           \o (IF f.semicolon THEN <<<<";">>>> ELSE <<>>)
      [] f.kind = "database" ->
           <<w_CREATE, KeywordWord("DATABASE")>>
           \o (IF f.if_not_exists THEN <<w_IF, w_NOT, w_EXISTS>> ELSE <<>>)
           \o <<w_d>>
           \o (IF f.options = <<>> THEN <<>>
               ELSE <<<<"(">>>>
                    \o Join([k \in DOMAIN f.options |->
                               DatabaseOptionsWritten[f.options[k]].words], <<",">>)
                    \o (IF f.closed THEN <<<<")">>>> ELSE <<>>))
           \o (IF f.semicolon THEN <<<<";">>>> ELSE <<>>)
      [] f.kind = "trigger" ->
           <<w_CREATE, KeywordWord("TRIGGER"), w_g, KeywordWord("BEFORE")>>
           \o Join([k \in DOMAIN f.events |-> TriggerEventsWritten[f.events[k]].words],
                   KeywordWord("OR"))
           \o (IF f.for_each_row
               THEN <<KeywordWord("FOR"), KeywordWord("EACH"), KeywordWord("ROW")>>
               ELSE <<>>)
           \o <<KeywordWord("ON"), w_t, KeywordWord("EXECUTE"), KeywordWord("FUNCTION"),
                 w_f>>
           \o (IF f.semicolon THEN <<<<";">>>> ELSE <<>>)
      [] f.kind = "role" ->
           <<w_CREATE, KeywordWord("ROLE"), w_r>>
           \o (IF f.options = <<>> THEN <<>> ELSE <<w_WITH>>)
           \o Concat([i \in DOMAIN f.options |-> RoleOptionsWritten[f.options[i]].words])
           \o (IF f.semicolon THEN <<<<";">>>> ELSE <<>>)
      [] f.kind = "insert" ->
           <<w_INSERT>> \o (IF f.into THEN <<w_INTO>> ELSE <<>>) \o <<f.table>>
           \o (IF f.columns = <<>> THEN <<>>
               ELSE ParenList([i \in DOMAIN f.columns |-> <<f.columns[i]>>]))
           \o (IF f.values THEN <<w_VALUES>> ELSE <<>>)
           \o Join([r \in DOMAIN f.rows |->
                      ParenList([e \in DOMAIN f.rows[r] |-> RenderMin(f.rows[r][e])])],
                   <<",">>)

\* the text of a form: its own characters, or its words separated by spaces
Render(f) == IF f.kind = "text" THEN f.text ELSE Text(Words(f))

\* a Lexer constructed over the text of one of the given forms
LexerOver(forms) ==
    /\ form \in forms
    /\ input = Render(form)
    /\ lexer = NewLexer(input)
    /\ tok = NoToken
    /\ tokens = <<>>
    /\ position = 0
    /\ result = NoResult
    /\ phase = "lexer"
    /\ call = Call("Lexer", None)
    /\ tables = NoTables
    /\ history = <<>>

\* ------------------------------------------------------ the Lexer by itself
LexerAlphabet == {"A", "s", "_", "1", "'", " ", "\n", ",", "/"}

select_FroM == <<"s","e","l","e","c","t"," ","F","r","o","M">>
SELECT_abc == <<"S","E","L","E","C","T"," ","'","a","b","c">>

LexerForms ==
    { [kind |-> "text", text |-> s] :
        s \in Strings(LexerAlphabet, MaxLen) \cup {select_FroM, SELECT_abc} }

Init == LexerOver(LexerForms)
Next == NextToken
Spec == Init /\ [][Next]_vars

\* -------------------------------------------- a Parser over a Lexer's text
NextParser == ParserConstruct \/ Parse

\* SELECT followed by a chain of operands joined by binary operators
ChainForms ==
    UNION { { [kind |-> "chain", operands |-> xs, ops |-> os] :
                xs \in { s \in Strings({w_a, w_1}, n + 1) : Len(s) = n + 1 },
                os \in { s \in Strings(Ops, n) : Len(s) = n } } :
            n \in 0..MaxChainOps }

\* SELECT followed by an expression whose inner operands are parenthesized
ParenthesizedForms ==
    { [kind |-> "parenthesized", tree |-> t] : t \in TreesUpTo(MaxTreeOps, {w_a, w_1}) }

ExprInit == LexerOver(ChainForms \cup ParenthesizedForms)
SpecExpr == ExprInit /\ [][NextParser]_vars

\* SELECT statements as the grammar writes them
SelectItems ==
    {Star, Leaf(w_name), Leaf(w_age),
     Node("MUL", Node("PLUS", Leaf(w_1), Leaf(w_a)), Leaf(w_30))}
SelectWheres ==
    {None, Some(Node("EQ", Leaf(w_age), Leaf(w_30))),
     Some(Node("EQ", Leaf(w_a), Node("PLUS", Leaf(w_1), Leaf(w_30))))}
SelectForms ==
    { [kind |-> "select", projections |-> ps, tables |-> ts, where |-> w,
       semicolon |-> semi] :
        ps \in Strings(SelectItems, MaxProjections) \ {<<>>},
        ts \in Strings({w_users, w_t}, MaxTables),
        w \in SelectWheres, semi \in BOOLEAN }

\* SELECT followed by any few of the words a SELECT statement is made of
SelectWordAlphabet ==
    {<<"*">>, w_a, w_1, <<",">>, w_FROM, w_WHERE, <<"(">>, <<")">>, <<"+">>, <<";">>}
SELECT_star_FROM == [kind |-> "words", words |-> <<w_SELECT, <<"*">>, w_FROM, <<";">>>>]
SELECT_unclosed ==
    [kind |-> "words", words |-> <<w_SELECT, <<"(">>, w_1, <<"+">>, w_a, <<";">>>>]

SelectWordForms ==
    { [kind |-> "words", words |-> <<w_SELECT>> \o tail] :
        tail \in Strings(SelectWordAlphabet, MaxTail) }

SelectInit == LexerOver(SelectForms \cup SelectWordForms \cup {SELECT_star_FROM, SELECT_unclosed})
SpecSelect == SelectInit /\ [][NextParser]_vars

\* CREATE SEQUENCE s followed by INCREMENT BY and START WITH options
SequenceOptionsWritten ==
    { [option |-> o, negative |-> neg, number |-> n] :
        o \in {"INCREMENT", "START"}, neg \in BOOLEAN, n \in {w_1, w_100} }
SequenceForms ==
    { [kind |-> "sequence", name |-> w_s, options |-> os, semicolon |-> semi] :
        os \in Strings(SequenceOptionsWritten, MaxOptions), semi \in BOOLEAN }

\* CREATE TABLE t ( columns ) ;
ColumnsWritten ==
    { [name |-> n, type |-> ty, flags |-> fl] :
        n \in {w_id, w_name}, ty \in {w_INTEGER, w_TEXT},
        fl \in {<<>>, <<"PRIMARY">>, <<"NOT">>, <<"UNIQUE">>, <<"NOT", "UNIQUE">>} }
TableForms ==
    { [kind |-> "table", name |-> w_t, columns |-> cs] :
        cs \in Strings(ColumnsWritten, MaxColumns) \ {<<>>} }

\* INSERT [INTO] t [( columns )] [VALUES] ( row ) , ...
RowsWritten == Strings(Strings({Leaf(w_1), Leaf(w_a)}, MaxRows) \ {<<>>}, MaxRows) \ {<<>>}
InsertForms ==
    { [kind |-> "insert", into |-> into, table |-> w_t, columns |-> cs,
       values |-> v, rows |-> rs] :
        into \in BOOLEAN, cs \in Strings({w_id, w_name}, MaxColumns),
        v \in BOOLEAN, rs \in RowsWritten }

\* any few of the words that statements and expressions are made of
StatementWordAlphabet ==
    {w_SELECT, w_CREATE, w_TABLE, w_INSERT, w_a, w_9999999999, <<"^">>, <<"(">>}
StatementWordForms ==
    { [kind |-> "words", words |-> ws] : ws \in Strings(StatementWordAlphabet, MaxWords) }

StatementsInit ==
    LexerOver(SequenceForms \cup TableForms \cup InsertForms \cup StatementWordForms)
SpecStatements == StatementsInit /\ [][NextParser]_vars

\* DROP type [CONCURRENTLY] [IF EXISTS] names [CASCADE | RESTRICT] [;]
DropForms ==
    { [kind |-> "drop", type |-> ty, concurrently |-> c, if_exists |-> ie,
       names |-> ns, tail |-> tl, semicolon |-> semi] :
        ty \in DropObjectTypes, c \in BOOLEAN, ie \in BOOLEAN,
        ns \in Strings({w_t, w_a}, MaxNames) \ {<<>>},
        tl \in {"NONE", "CASCADE", "RESTRICT"}, semi \in BOOLEAN }

\* ALTER TABLE t ALTER COLUMN c followed by any few of the words an ALTER
\* COLUMN action is made of
ContinuationAlphabet ==
    {w_TYPE, w_INTEGER, w_SET, w_DROP, w_DEFAULT, w_NOT, w_NULL, w_1}
AlterColumnForms ==
    { [kind |-> "alter_column", continuation |-> ws] :
        ws \in Strings(ContinuationAlphabet, MaxContinuation) }

\* one statement of each kind parse_statement tells apart, and texts that
\* start with no statement keyword
DispatchForms ==
    { [kind |-> "dispatch", words |-> ws] :
        ws \in {<<w_SELECT, w_a>>,
                <<w_INSERT, w_INTO, w_t, w_VALUES, <<"(">>, w_1, <<")">>>>,
                <<w_DROP, w_TABLE, w_t>>,
                <<w_ALTER, w_TABLE, w_t, w_RENAME, w_TO, w_a>>,
                <<w_CREATE, w_TABLE, w_t, <<"(">>, w_id, w_INTEGER, <<")">>>>,
                <<w_CREATE, w_SEQUENCE, w_s>>,
                <<w_CREATE, w_TEMPORARY, w_SEQUENCE, w_s>>,
                <<w_a>>, <<w_1>>, <<w_FROM, w_t>>, <<w_TABLE, w_t>>, <<<<"(">>>>,
                <<<<";">>>>} }

DispatchInit == LexerOver(DispatchForms \cup DropForms \cup AlterColumnForms)
SpecDispatch == DispatchInit /\ [][NextParser]_vars

\* statements written one after another: statements of the grammar, some
\* with and some without a semicolon, and texts that are no statement
SELECT_a(semi) ==
    [kind |-> "select", projections |-> <<Leaf(w_a)>>, tables |-> <<>>,
     where |-> None, semicolon |-> semi]
DROP_TABLE_t(semi) ==
    [kind |-> "drop", type |-> "TABLE", concurrently |-> FALSE, if_exists |-> FALSE,
     names |-> <<w_t>>, tail |-> "NONE", semicolon |-> semi]
CREATE_TABLE_t ==
    [kind |-> "table", name |-> w_t,
     columns |-> <<[name |-> w_id, type |-> w_INTEGER, flags |-> <<>>]>>]
INSERT_INTO_t ==
    [kind |-> "insert", into |-> TRUE, table |-> w_t, columns |-> <<>>,
     values |-> TRUE, rows |-> <<<<Leaf(w_1)>>>>]
DROP_a == [kind |-> "words", words |-> <<w_DROP, w_a>>]
SELECT_open_a == [kind |-> "words", words |-> <<w_SELECT, <<"(">>, w_a, <<";">>>>]

BatchStatements ==
    {SELECT_a(TRUE), SELECT_a(FALSE), DROP_TABLE_t(TRUE), DROP_TABLE_t(FALSE),
     CREATE_TABLE_t, INSERT_INTO_t, DROP_a, SELECT_open_a}
BatchForms ==
    { [kind |-> "batch", statements |-> ss] :
        ss \in Strings(BatchStatements, MaxStatements) }

BatchInit == LexerOver(BatchForms)
SpecBatch == BatchInit /\ [][NextParser]_vars

\* the primitives of a Parser constructed over a few short texts
PrimitiveForms ==
    { [kind |-> "words", words |-> ws] :
        ws \in {<<>>, <<w_SELECT>>, <<w_SELECT, w_a>>, <<w_SELECT, w_a, <<",">>, w_t, <<";">>>>,
                <<w_a, <<";">>, <<";">>>>} }
PrimitivesInit == LexerOver(PrimitiveForms)
NextPrimitives == ParserConstruct \/ Current \/ Peek \/ Advance \/ Match \/ Expect
SpecPrimitives == PrimitivesInit /\ [][NextPrimitives]_vars

\* SELECT followed by operands of every kind of literal, joined by commas and
\* operators
w_1_5 == <<"1", ".", "5">>
w_2_dot == <<"2", ".">>
w_ab_quoted == <<"'", "a", "b", "'">>
w_empty_quoted == <<"'", "'">>
LiteralWords == {w_a, w_1, w_1_5, w_2_dot, w_ab_quoted, w_empty_quoted}
LiteralSeparators == {<<",">>, <<"+">>}

\* xs[1] seps[1] xs[2] ... seps[n - 1] xs[n]
Interleave(xs, seps) ==
    [i \in 1..(2 * Len(xs) - 1) |->
       IF i % 2 = 1 THEN xs[(i + 1) \div 2] ELSE seps[i \div 2]]

LiteralForms ==
    UNION { LET operands == { s \in Strings(LiteralWords, n) : Len(s) = n }
                separators == { s \in Strings(LiteralSeparators, n - 1) : Len(s) = n - 1 }
            IN  { [kind |-> "words", words |-> <<w_SELECT>> \o Interleave(xs, seps)] :
                    xs \in operands, seps \in separators } :
            n \in 1..MaxLiterals }
    \cup { [kind |-> "words",
            words |-> <<w_SELECT, w_a, w_FROM, w_t, w_WHERE, x, <<"=">>, y>>] :
              x \in LiteralWords, y \in LiteralWords }

LiteralsInit == LexerOver(LiteralForms)
SpecLiterals == LiteralsInit /\ [][NextParser]_vars

\* SELECT followed by operands joined by the operator symbols the precedence
\* table ranks
OperatorSymbols == {<<"*">>, <<"/">>, <<"%">>, <<"+">>, <<"-">>, <<"=">>, <<"^">>}
OperatorForms ==
    UNION { LET operands == { s \in Strings({w_a, w_1}, n + 1) : Len(s) = n + 1 }
                operators == { s \in Strings(OperatorSymbols, n) : Len(s) = n }
            IN  { [kind |-> "words", words |-> <<w_SELECT>> \o Interleave(xs, os)] :
                    xs \in operands, os \in operators } :
            n \in 1..MaxOperators }

OperatorsInit == LexerOver(OperatorForms)
SpecOperators == OperatorsInit /\ [][NextParser]_vars

\* statements with characters the Lexer does not recognise written between
\* their words
w_ADD == <<"A","D","D">>
IllegalWords == {<<"/">>, <<"@">>}
IllegalBases ==
    {<<>>,
     <<w_SELECT, w_a, <<",">>, w_1, w_FROM, w_t, w_WHERE, w_a, <<"=">>, w_1, <<";">>>>,
     <<w_SELECT, <<"(">>, w_a, <<")">>, <<";">>, w_SELECT, w_1>>,
     <<w_DROP, w_TABLE, w_IF, w_EXISTS, w_t, <<",">>, w_a, w_CASCADE>>,
     <<w_ALTER, w_TABLE, w_t, w_ADD, w_COLUMN, w_c, w_INTEGER, w_NOT, w_NULL>>,
     <<w_ALTER, w_TABLE, w_t, w_ALTER, w_COLUMN, w_c, w_SET, w_DEFAULT, w_1>>,
     <<w_ALTER, w_TABLE, w_t, w_ALTER, w_COLUMN, w_c, w_TYPE, w_INTEGER>>,
     <<w_ALTER, w_TABLE, w_t, w_ALTER, w_COLUMN, w_c>>,
     <<w_ALTER, w_TABLE, w_t, w_RENAME, w_TO, w_a, <<";">>, w_DROP, w_TABLE, w_t>>,
     <<w_ALTER, w_TABLE, w_t, w_DROP, w_COLUMN, w_c, <<",">>, w_RENAME, w_a>>,
     <<w_ALTER, w_TABLE, w_t, w_ADD, KeywordWord("CONSTRAINT"), w_c, w_PRIMARY, w_KEY>>,
     <<w_ALTER, w_TABLE, w_t, w_SET, KeywordWord("SCHEMA"), w_s>>,
     <<w_ALTER, w_TABLE, w_t, KeywordWord("OWNER"), w_TO, w_a>>,
     <<w_CREATE, w_TABLE, w_t, <<"(">>, w_id, w_INTEGER, <<")">>>>,
     <<w_CREATE, w_TABLE, w_t, w_id, w_INTEGER, w_NOT, w_NULL, <<")">>>>,
     <<w_CREATE, w_TABLE, w_t, KeywordWord("CONSTRAINT"), w_c, w_PRIMARY, w_KEY,
       <<"(">>, w_a, <<",">>, w_id, <<")">>, <<")">>>>,
     <<w_CREATE, w_TABLE, w_t, KeywordWord("CHECK"), <<"(">>, w_a, <<"=">>, w_1,
       <<")">>, <<")">>>>,
     <<w_CREATE, w_TABLE, w_t, KeywordWord("FOREIGN"), w_KEY, <<"(">>, w_a, <<")">>,
       KeywordWord("REFERENCES"), w_t, <<"(">>, w_a, <<")">>, <<")">>>>,
     <<w_INSERT, w_INTO, w_t, w_VALUES, <<"(">>, w_1, <<")">>>>}

\* ws with x written before its word i + 1
InsertAt(ws, i, x) == SubSeq(ws, 1, i) \o <<x>> \o SubSeq(ws, i + 1, Len(ws))

\* ws with x written in the place of its word i
ReplaceAt(ws, i, x) == [ws EXCEPT ![i] = x]

\* ws with at most n of the unrecognised characters written into it, between
\* its words or in the place of one
RECURSIVE WithIllegal(_, _)
WithIllegal(ws, n) ==
    IF n = 0 THEN {ws}
    ELSE LET fewer == WithIllegal(ws, n - 1)
         IN  fewer
             \cup { InsertAt(w, i, x) : w \in fewer, i \in 0..Len(ws), x \in IllegalWords }
             \cup { ReplaceAt(w, i, x) : w \in fewer, i \in 1..Len(ws), x \in IllegalWords }

IllegalForms ==
    { [kind |-> "words", words |-> ws] :
        ws \in UNION { WithIllegal(b, MaxIllegal) : b \in IllegalBases } }

IllegalInit == LexerOver(IllegalForms)
SpecIllegal == IllegalInit /\ [][NextParser]_vars

\* CREATE ROLE r followed by a few of the options, each named by its place
\* in RoleOptionsWritten
RoleForms ==
    { [kind |-> "role", options |-> os, semicolon |-> semi] :
        os \in Strings(DOMAIN RoleOptionsWritten, MaxRoleOptions), semi \in BOOLEAN }

\* CREATE [UNIQUE] INDEX [CONCURRENTLY] [IF NOT EXISTS] i ON [ONLY] t [USING m]
\* ( elements [)] [WHERE a = 1] [TABLESPACE s] [;]
IndexForms ==
    { [kind |-> "index", unique |-> u, concurrently |-> c, if_not_exists |-> ine,
       only |-> o, using |-> m, elements |-> es, closed |-> cl, where |-> w,
       tablespace |-> ts, semicolon |-> semi] :
        u \in BOOLEAN, c \in {FALSE}, ine \in {FALSE}, o \in {FALSE}, m \in BOOLEAN,
        es \in Strings({w_a, w_id}, MaxIndexElements) \ {<<>>},
        cl \in BOOLEAN, w \in BOOLEAN, ts \in BOOLEAN, semi \in BOOLEAN }
    \cup { [kind |-> "index", unique |-> FALSE, concurrently |-> c,
            if_not_exists |-> ine, only |-> o, using |-> FALSE,
            elements |-> <<w_a>>, closed |-> cl, where |-> FALSE,
            tablespace |-> FALSE, semicolon |-> FALSE] :
              c \in BOOLEAN, ine \in BOOLEAN, o \in BOOLEAN, cl \in BOOLEAN }

\* CREATE DATABASE [IF NOT EXISTS] d [( option , ... [)]] [;]
DatabaseForms ==
    { [kind |-> "database", if_not_exists |-> ine, options |-> os, closed |-> cl,
       semicolon |-> semi] :
        ine \in {FALSE}, os \in Strings(DOMAIN DatabaseOptionsWritten, MaxDatabaseOptions),
        cl \in BOOLEAN, semi \in BOOLEAN }
    \cup { [kind |-> "database", if_not_exists |-> TRUE, options |-> os,
            closed |-> TRUE, semicolon |-> FALSE] : os \in {<<>>, <<1>>} }

\* CREATE TRIGGER g BEFORE event [OR event ...] [FOR EACH ROW] ON t EXECUTE
\* FUNCTION f [;]
TriggerForms ==
    { [kind |-> "trigger", events |-> es, for_each_row |-> fe, semicolon |-> semi] :
        es \in Strings(DOMAIN TriggerEventsWritten, MaxTriggerEvents) \ {<<>>},
        fe \in BOOLEAN, semi \in BOOLEAN }

\* the CREATE statements handed to parse_create_stmt
CreateInit == LexerOver(RoleForms \cup IndexForms \cup DatabaseForms \cup TriggerForms)
NextCreate == ParserConstruct \/ ParseCreateStmt
SpecCreate == CreateInit /\ [][NextCreate]_vars

\* statements in a row, sequences with options, tables with constraints and
\* chains of operators: the loops of parse() and of the functions it is
\* written over
TerminationStatements == {SELECT_a(TRUE), SELECT_a(FALSE), CREATE_TABLE_t, DROP_a}
TerminationWords ==
    {<<w_CREATE, w_TABLE, w_t, <<")">>>>,
     <<w_ALTER, w_TABLE, w_t, w_ADD, w_COLUMN, w_c, w_INTEGER, w_NOT, w_NULL, w_UNIQUE,
       w_PRIMARY, w_KEY, <<",">>, w_DROP, w_COLUMN, w_c>>,
     <<w_CREATE, KeywordWord("SCHEMA"), w_s, w_TABLE, w_t, <<"(">>, w_id, w_INTEGER,
       w_NOT, w_NULL, <<")">>, w_SEQUENCE, w_s, KeywordWord("INDEX"), w_i,
       KeywordWord("ON"), w_t, <<"(">>, w_a, <<",">>, w_id, <<")">>>>,
     <<w_CREATE, w_TABLE, w_t>>,
     <<w_CREATE, w_TABLE, w_t, w_PRIMARY, w_KEY, <<"(">>, w_id, <<")">>, <<")">>>>,
     <<w_CREATE, w_TABLE, w_t, <<"(">>, w_id, w_INTEGER, <<",">>,
       w_PRIMARY, w_KEY, <<"(">>, w_id, <<")">>, <<",">>,
       w_UNIQUE, <<"(">>, w_id, <<",">>, w_a, <<")">>, <<")">>>>,
     <<w_SELECT, w_a, <<"+">>, w_1, <<"*">>, <<"(">>, w_a, <<"=">>, w_1, <<")">>, <<";">>,
       <<";">>, w_SELECT, w_a>>}
TerminationForms ==
    { [kind |-> "batch", statements |-> ss] :
        ss \in Strings(TerminationStatements, MaxStatements) }
    \cup { [kind |-> "words", words |-> ws] : ws \in TerminationWords }
    \cup { f \in SequenceForms \cup RoleForms : ~f.semicolon }
    \cup { f \in ChainForms : Len(f.ops) <= MaxTerminationOps }
TerminationInit == LexerOver(TerminationForms)
NextTermination == ParserConstruct \/ ParseIteration
\* parse() is sequential code: once called it takes its next step. This is
\* WF_vars(ParseIteration) with ENABLED <<ParseIteration>>_vars written out:
\* a step of ParseIteration can be taken whenever parse() is to be called or
\* is running, and it changes call, result or phase.
ParseRunning == phase \in {"parser", "parsing"}
SpecTermination ==
    /\ TerminationInit /\ [][NextTermination]_vars
    /\ ([]<>~ParseRunning \/ []<><<ParseIteration>>_vars)

\* integers up to 2^63 - 1 written as a SELECT operand and as the number of
\* a CREATE SEQUENCE option
w_2147483647 == <<"2","1","4","7","4","8","3","6","4","7">>
w_2147483648 == <<"2","1","4","7","4","8","3","6","4","8">>
w_9223372036854775807 ==
    <<"9","2","2","3","3","7","2","0","3","6","8","5","4","7","7","5","8","0","7">>
IntegerWords ==
    {w_1, w_100, w_2147483647, w_2147483648, w_9999999999, w_9223372036854775807}
IntegerForms ==
    { [kind |-> "integer", option |-> o, negative |-> n, number |-> w, semicolon |-> semi] :
        o \in {"INCREMENT", "START", "MINVALUE", "MAXVALUE"}, n \in BOOLEAN,
        w \in IntegerWords, semi \in BOOLEAN }
    \cup { [kind |-> "integer", option |-> o, negative |-> FALSE, number |-> w,
            semicolon |-> semi] :
              o \in {"SELECT", "CACHE"}, w \in IntegerWords, semi \in BOOLEAN }
IntegersInit == LexerOver(IntegerForms)
NextIntegers == ParserConstruct \/ Parse \/ ParseCreateStmt
SpecIntegers == IntegersInit /\ [][NextIntegers]_vars

\* a Catalog just constructed
CatalogInit ==
    /\ form = [kind |-> "catalog"]
    /\ input = <<>>
    /\ lexer = NewLexer(input)
    /\ tok = NoToken
    /\ tokens = <<>>
    /\ position = 0
    /\ result = NoResult
    /\ phase = "catalog"
    /\ call = Call("Catalog", None)
    /\ tables = NoTables
    /\ history = <<>>
NextCatalog == CreateTable \/ GetTable
SpecCatalog == CatalogInit /\ [][NextCatalog]_vars

\* ------------------------------------------------------------ Lexer claims
WhitespaceChars == {" ", "\t", "\n", "\r"}
WordChars ==
    Range(UpperLetters) \cup Range(LowerLetters) \cup Range(DigitChars) \cup {"_"}

\* 1-based index of the first character at or after the Lexer's position that
\* is not whitespace, Len(input) + 1 if there is none
NextStart ==
    LET rest == { i \in (lexer.position + 1)..Len(input) :
                    input[i] \notin WhitespaceChars }
    IN  IF rest = {} THEN Len(input) + 1
        ELSE CHOOSE i \in rest : \A j \in rest : i <= j

\* 1-based index of the last character of the run of word characters at i
WordEnd(i) ==
    CHOOSE j \in i..Len(input) :
        /\ \A k \in i..j : input[k] \in WordChars
        /\ j = Len(input) \/ input[j + 1] \notin WordChars

NextWord == SubSeq(input, NextStart, WordEnd(NextStart))

StartsWord ==
    /\ NextStart <= Len(input)
    /\ input[NextStart] \in Range(UpperLetters) \cup Range(LowerLetters) \cup {"_"}

\* C5: a word of letters, digits and underscores that starts with a letter or
\* an underscore is returned with its text exactly as written; its kind is
\* the keyword kind iff the upper-cased word is in the keyword table, for any
\* mix of letter case, and IDENTIFIER otherwise.
C5_KeywordsCaseInsensitive ==
    [][StartsWord =>
         /\ tok'.literal = NextWord
         /\ tok'.type = IF upperIdent(NextWord) \in DOMAIN keywords
                        THEN keywords[upperIdent(NextWord)]
                        ELSE "IDENTIFIER"]_vars

C5_Witness ==
    /\ input = select_FroM
    /\ tok = Token("FROM", <<"F","r","o","M">>, 1, 8)

\* C6: NextToken always returns a token, moves past at least one character
\* while input is left, returns EOF_TOKEN once the input is exhausted and on
\* every call after that; the unterminated literal of SELECT 'abc comes back
\* as a STRING token abc with the input exhausted.
C6_NextTokenTerminates ==
    /\ [][/\ tok'.type # OutOfRange.type
          /\ lexer.position < Len(input) => lexer'.position > lexer.position
          /\ lexer.position >= Len(input) => tok'.type = "EOF_TOKEN"
          /\ tok.type = "EOF_TOKEN" => tok'.type = "EOF_TOKEN"]_vars
    /\ [](input = SELECT_abc /\ tok.type = "STRING" =>
            /\ tok.literal = <<"a","b","c">>
            /\ lexer.position >= Len(input)
            /\ lexer.ch = NUL)

C6_Witness ==
    /\ input = SELECT_abc
    /\ tok.type = "EOF_TOKEN"
    /\ lexer.readPosition = Len(input) + 3

\* ------------------------------------------------------- expression claims
Parsed == phase = "parsed"

\* the one statement parse() returned
TheStatement == result.val[1]
ReturnedOne == result.ok /\ Len(result.val) = 1

\* The reference grammar  E3 ::= E3 = E4 | E4,  E4 ::= E4 (+|-) E5 | E5,
\* E5 ::= E5 (*|%) x | x  applied to the chain xs[1] os[1] xs[2] ...
RECURSIVE RefGrammar(_, _, _)
RefGrammar(xs, os, level) ==
    IF os = <<>> THEN TreeOf(Leaf(xs[1]))
    ELSE LET at == { i \in DOMAIN os : Level(os[i]) = level }
         IN  IF at = {} THEN RefGrammar(xs, os, level + 1)
             ELSE LET k == CHOOSE i \in at : \A j \in at : j <= i
                  IN  BinaryOp(os[k],
                               RefGrammar(SubSeq(xs, 1, k), SubSeq(os, 1, k - 1), level),
                               RefGrammar(SubSeq(xs, k + 1, Len(xs)),
                                          SubSeq(os, k + 1, Len(os)), level + 1))

\* C3: a chain of primaries joined by binary operators parses to the tree of
\* the reference grammar: * and % above + and -, these above =, every level
\* left-associative.
C3_PrecedenceClimbing ==
    (Parsed /\ form.kind = "chain") =>
        /\ ReturnedOne
        /\ TheStatement.projections = <<RefGrammar(form.operands, form.ops, 3)>>

\* 1 + a * 1 parsed: root PLUS, right child MUL
C3_Witness ==
    /\ Parsed /\ form.kind = "chain" /\ form.ops = <<"PLUS", "MUL">>
    /\ ReturnedOne
    /\ TheStatement.projections[1].op = "PLUS"
    /\ TheStatement.projections[1].right.node = "BinaryOp"
    /\ TheStatement.projections[1].right.op = "MUL"

\* C4: a parenthesized sub-expression is one primary whatever operators
\* surround it: the tree has exactly the written grouping and no node for the
\* parentheses.
C4_Parentheses ==
    (Parsed /\ form.kind = "parenthesized") =>
        /\ ReturnedOne
        /\ TheStatement.projections[1] = TreeOf(form.tree)
        /\ Len(TheStatement.projections) = 1

\* ( 1 + a ) * 1 parsed: root MUL, left child PLUS
C4_Witness ==
    /\ Parsed
    /\ form = [kind |-> "parenthesized",
               tree |-> Node("MUL", Node("PLUS", Leaf(w_1), Leaf(w_a)), Leaf(w_1))]
    /\ ReturnedOne
    /\ TheStatement.projections[1].op = "MUL"
    /\ TheStatement.projections[1].left.op = "PLUS"

\* ----------------------------------------------------------- SELECT claims
ExpectedSelect(f) ==
    [SelectStmt EXCEPT
       !.projections = [i \in DOMAIN f.projections |->
                          IF f.projections[i].node = "Star" THEN ColumnRef(<<"*">>)
                          ELSE TreeOf(f.projections[i])],
       !.from = [i \in DOMAIN f.tables |-> TableRef(f.tables[i])],
       !.where = IF f.where = None THEN None ELSE Some(TreeOf(f.where[1]))]

\* C1: SELECT p1, ..., pn [FROM t1, ..., tm] [WHERE e] [;] parses to exactly
\* one SelectStmt with the n projections in order (* being the column
\* reference "*"), the m table names in order, and where present iff WHERE
\* was written, holding the tree of e.
C1_SelectStatement ==
    (Parsed /\ form.kind = "select") =>
        /\ ReturnedOne
        /\ TheStatement = ExpectedSelect(form)

\* SELECT *, name FROM users, t WHERE age = 30; parsed
C1_Witness ==
    /\ Parsed
    /\ form = [kind |-> "select", projections |-> <<Star, Leaf(w_name)>>,
               tables |-> <<w_users, w_t>>,
               where |-> Some(Node("EQ", Leaf(w_age), Leaf(w_30))),
               semicolon |-> TRUE]
    /\ ReturnedOne
    /\ Len(TheStatement.projections) = 2
    /\ TheStatement.projections[1] = ColumnRef(<<"*">>)
    /\ Len(TheStatement.from) = 2
    /\ TheStatement.where[1].op = "EQ"

\* a FROM token that no identifier follows
FromWithoutTable ==
    \E i \in DOMAIN tokens :
        /\ tokens[i].type = "FROM"
        /\ i = Len(tokens) \/ tokens[i + 1].type # "IDENTIFIER"

\* number of ( minus number of ) among the first i tokens
Depth(i) ==
    Cardinality({ j \in 1..i : tokens[j].type = "LPAREN" })
    - Cardinality({ j \in 1..i : tokens[j].type = "RPAREN" })

\* a ( after which the nesting never returns to the depth before it
UnclosedParen ==
    \E i \in DOMAIN tokens :
        /\ tokens[i].type = "LPAREN"
        /\ \A j \in i..Len(tokens) : Depth(j) >= Depth(i)

\* C2: parse() throws and returns no statements whenever FROM is not followed
\* by a table identifier and whenever a ( is left without its ).
C2_MalformedSelectThrows ==
    (Parsed /\ (FromWithoutTable \/ UnclosedParen)) =>
        /\ ~result.ok
        /\ result.val = None
        /\ result.err.what # ""

\* SELECT ( 1 + a ; was parsed and threw at the ;
C2_Witness ==
    /\ Parsed
    /\ form = SELECT_unclosed
    /\ UnclosedParen
    /\ ~result.ok
    /\ result.err.what = "Expected ')'"

\* -------------------------------------------------------- statement claims
\* the number an option stores: negated iff - was written before it
OptionValue(o) == IF o.negative THEN 0 - NumberValue[o.number] ELSE NumberValue[o.number]

\* the value of the last option of the given kind, or the default
LastOption(options, kind, default) ==
    LET at == { i \in DOMAIN options : options[i].option = kind }
    IN  IF at = {} THEN default
        ELSE OptionValue(options[CHOOSE i \in at : \A j \in at : j <= i])

ExpectedSequence(f) ==
    [CreateSequenceStmt EXCEPT
       !.sequence_name = f.name,
       !.increment_by = LastOption(f.options, "INCREMENT", 1),
       !.start_value = LastOption(f.options, "START", 1)]

\* C7: CREATE SEQUENCE s with INCREMENT BY [-]n and START WITH [-]m options
\* parses to exactly one CreateSequenceStmt named s whose increment_by and
\* start_value hold the numbers written, negated iff a - immediately
\* precedes them; INCREMENT BY -1 START WITH 100 gives -1 and 100.
C7_CreateSequence ==
    (Parsed /\ form.kind = "sequence") =>
        /\ ReturnedOne
        /\ TheStatement = ExpectedSequence(form)

ExpectedTable(f) ==
    [CreateTableStmt EXCEPT
       !.table_name = f.name,
       !.columns = [i \in DOMAIN f.columns |->
                      LET flags == Range(f.columns[i].flags)
                      IN  [name |-> f.columns[i].name,
                           type |-> DataTypeNames[f.columns[i].type],
                           not_null |-> "NOT" \in flags,
                           primary_key |-> "PRIMARY" \in flags,
                           unique |-> "UNIQUE" \in flags]]]

\* C8: CREATE TABLE t (c1 type flags, ..., ck type flags); parses to one
\* CreateTableStmt named t with the k columns in order, each with its
\* declared type and exactly the NOT NULL / PRIMARY KEY / UNIQUE flags
\* written after it, and no table constraints.
C8_CreateTable ==
    (Parsed /\ form.kind = "table") =>
        /\ ReturnedOne
        /\ TheStatement = ExpectedTable(form)
        /\ TheStatement.constraints = <<>>

ExpectedInsert(f) ==
    [InsertStmt EXCEPT
       !.table_name = f.table,
       !.columns = f.columns,
       !.values = [r \in DOMAIN f.rows |->
                     [e \in DOMAIN f.rows[r] |-> TreeOf(f.rows[r][e])]]]

\* C9: INSERT [INTO] t [(c1, ..., ck)] VALUES (row), ..., (row) parses to one
\* InsertStmt with table t, the columns in order (none when no list is
\* written) and the rows in order, each with its expressions in order;
\* without the VALUES keyword parse() throws, column list or not.
C9_Insert ==
    (Parsed /\ form.kind = "insert") =>
        IF form.values
        THEN ReturnedOne /\ TheStatement = ExpectedInsert(form)
        ELSE ~result.ok

\* C10: every error parse() throws has a message and the line and column,
\* both at least 1, of the token at which the mismatch was found.
C10_ErrorsCarryPosition ==
    (Parsed /\ ~result.ok) =>
        /\ result.err.what # ""
        /\ result.err.positioned
        /\ result.err.line >= 1
        /\ result.err.column >= 1

\* ----------------------------------------------------------- parse() claims
\* what parse_statement gives for a statement written alone
Alone(f) ==
    LET text == Render(f)
    IN  parse_statement(DrainLexer(text, NewLexer(text), <<>>).tokens, 0)

\* the statement a form of the grammar is to parse to
Expected(f) ==
    CASE f.kind = "select" -> ExpectedSelect(f)
      [] f.kind = "drop" -> [DropStmt EXCEPT !.object_type = f.type, !.names = f.names]
      [] f.kind = "table" -> ExpectedTable(f)
      [] f.kind = "insert" -> ExpectedInsert(f)

\* the statements of the batch that raise when parsed alone
Raising == { i \in DOMAIN form.statements : ~Alone(form.statements[i]).ok }

\* C11: when statement k of the input raises, parse() yields that error and
\* nothing else: none of the k - 1 statements parsed before it is returned.
C11_FirstErrorAborts ==
    (Parsed /\ form.kind = "batch" /\ Raising # {}) =>
        LET k == CHOOSE i \in Raising : \A j \in Raising : i <= j
        IN  /\ ~result.ok
            /\ result.val = None
            /\ result.err.what = Alone(form.statements[k]).err.what

\* SELECT a ; DROP TABLE t DROP a was parsed: the third statement threw
C11_Witness ==
    /\ Parsed
    /\ form = [kind |-> "batch",
               statements |-> <<SELECT_a(TRUE), DROP_TABLE_t(FALSE), DROP_a>>]
    /\ Raising = {3}
    /\ ~result.ok
    /\ result.val = None
    /\ result.err.what = "Unknown object type in DROP statement"

\* C12: parse() returns the empty sequence for an input with no token but
\* EOF; for k statements of the grammar written one after another, each
\* with or without a semicolon after it, it returns exactly the k statements
\* in order; and whenever it returns the cursor is on EOF.
C12_StatementSequence ==
    /\ (Parsed /\ form.kind = "batch"
           /\ \A i \in DOMAIN form.statements : form.statements[i].kind # "words") =>
          /\ result.ok
          /\ result.val = [i \in DOMAIN form.statements |-> Expected(form.statements[i])]
    /\ (Parsed /\ result.ok) =>
          /\ position < Len(tokens)
          /\ tokens[position + 1].type = "EOF_TOKEN"

\* the Lexer after n calls of NextToken on a fresh Lexer over inp
RECURSIVE LexerAfter(_, _)
LexerAfter(inp, n) ==
    IF n = 0 THEN NewLexer(inp) ELSE NextTokenOf(inp, LexerAfter(inp, n - 1)).lex

\* the token the i-th call of NextToken returns
Produced(i) == NextTokenOf(input, LexerAfter(input, i - 1)).tok

\* C18: once the Parser is constructed its buffer holds the tokens the Lexer
\* produced, in order, up to and including the first EOF_TOKEN, which is its
\* last element and occurs nowhere else; afterwards neither the buffer nor
\* the Lexer changes.
C18_BufferDrainedOnce ==
    /\ [](phase # "lexer" =>
            /\ Len(tokens) >= 1
            /\ \A i \in DOMAIN tokens :
                 /\ tokens[i] = Produced(i)
                 /\ tokens[i].type = "EOF_TOKEN" <=> i = Len(tokens))
    /\ [][phase # "lexer" => tokens' = tokens /\ lexer' = lexer]_vars

\* SELECT a ; DROP TABLE t ; was drained into seven tokens and parsed
C18_Witness ==
    /\ Parsed
    /\ form = [kind |-> "batch", statements |-> <<SELECT_a(TRUE), DROP_TABLE_t(TRUE)>>]
    /\ Len(tokens) = 8
    /\ tokens[8].type = "EOF_TOKEN"
    /\ tokens[4].type = "DROP"
    /\ Len(result.val) = 2
    /\ lexer.position >= Len(input)

\* -------------------------------------------------------- dispatch claims
\* the sub-parser of the kind the statement at the head of toks is written
\* as, run after the leading keyword
SubParser(toks) ==
    LET lead == toks[1].type
    IN  CASE lead = "SELECT" -> parse_select_stmt(toks, 1)
          [] lead = "INSERT" -> parse_insert_stmt(toks, 1)
          [] lead = "DROP" -> parse_drop_stmt(toks, 1)
          [] lead = "ALTER" -> parse_alter_table_stmt(toks, 1)
          [] lead = "CREATE" /\ CreateObjectType(toks, 1, 0) = "TABLE" ->
               parse_create_table_stmt(toks, 1)
          [] lead = "CREATE" /\ CreateObjectType(toks, 1, 0) = "SEQUENCE" ->
               parse_create_sequence_stmt(toks, 1)
          [] OTHER -> Throw(0, "Unsupported statement type", toks[1])

\* C13: parse_statement hands every statement to the sub-parser of its kind:
\* SELECT, INSERT, DROP and ALTER to theirs, CREATE [modifiers] TABLE or
\* SEQUENCE to the sub-parser of that object kind, whose statement or error
\* parse() then yields; any other leading token raises "Unsupported
\* statement type".
C13_Dispatch ==
    (Parsed /\ form.kind = "dispatch") =>
        LET sub == SubParser(tokens)
        IN  IF sub.ok
            THEN ReturnedOne /\ TheStatement = sub.val
            ELSE ~result.ok /\ result.err = sub.err

ExpectedDrop(f) ==
    [DropStmt EXCEPT
       !.object_type = f.type,
       !.names = f.names,
       !.if_exists = f.if_exists,
       !.concurrently = (f.type = "INDEX" \/ f.concurrently),
       !.cascade = (f.tail = "CASCADE"),
       !.restrict = (f.tail = "RESTRICT")]

\* C14: DROP type [CONCURRENTLY] [IF EXISTS] n1, ..., nk [CASCADE | RESTRICT]
\* parses, for each of the ten object types and INDEX like the others, to a
\* DropStmt of that type with the names in order, if_exists iff IF EXISTS
\* was written, concurrently iff the type is INDEX or CONCURRENTLY was
\* written, and cascade / restrict iff that keyword was written.
C14_Drop ==
    (Parsed /\ form.kind = "drop") =>
        /\ ReturnedOne
        /\ TheStatement = ExpectedDrop(form)

\* the continuation starts with TYPE type, SET DEFAULT expr, SET NOT NULL,
\* DROP DEFAULT or DROP NOT NULL
StartsJustified(c) ==
    \/ Len(c) >= 2 /\ c[1] = w_TYPE /\ c[2] = w_INTEGER
    \/ Len(c) >= 3 /\ c[1] = w_SET /\ c[2] = w_DEFAULT /\ c[3] \in {w_1, w_INTEGER}
    \/ Len(c) >= 3 /\ c[1] \in {w_SET, w_DROP} /\ c[2] = w_NOT /\ c[3] = w_NULL
    \/ Len(c) >= 2 /\ c[1] = w_DROP /\ c[2] = w_DEFAULT

\* C20: after ALTER COLUMN name an action is returned only when one of
\* TYPE type, SET DEFAULT expr, SET NOT NULL, DROP DEFAULT, DROP NOT NULL was
\* consumed; any other continuation (nothing, an unrelated token, SET or
\* DROP followed by something else) raises.
C20_AlterColumnJustified ==
    (Parsed /\ form.kind = "alter_column" /\ ~StartsJustified(form.continuation)) =>
        ~result.ok

C16_AdvanceSaturates ==
    /\ [][call'.op = "advance" =>
            /\ tok' = current(tokens, position)
            /\ position' = IF current(tokens, position).type = "EOF_TOKEN"
                           THEN position ELSE position + 1]_vars
    /\ [](phase # "lexer" => position < Len(tokens))

\* C17: match(kind) returns true and moves the cursor by exactly one when
\* the current token is of that kind, and otherwise returns false and leaves
\* the cursor; expect returns the matched token and moves by one on a match,
\* and on a mismatch throws message plus the current token's line and column
\* without moving the cursor.
C17_MatchExpectFrame ==
    [][call'.op \in {"match", "expect"} =>
         LET type == call'.arg
             hit == current(tokens, position).type = type
         IN  /\ call'.op = "match" =>
                   /\ result'.val = hit
                   /\ position' = IF hit THEN position + 1 ELSE position
             /\ call'.op = "expect" =>
                   IF hit
                   THEN /\ result'.ok
                        /\ result'.val = current(tokens, position)
                        /\ position' = position + 1
                   ELSE /\ ~result'.ok
                        /\ result'.err.what = "Expected token"
                        /\ result'.err.line = current(tokens, position).line
                        /\ result'.err.column = current(tokens, position).column
                        /\ position' = position]_vars

\* ------------------------------------------------------ token positions
\* 1-based line and column of the character at 1-based index i of the input
LineOf(i) == 1 + Cardinality({ j \in 1..(i - 1) : input[j] = "\n" })
ColumnOf(i) ==
    LET newlines == { j \in 1..(i - 1) : input[j] = "\n" }
    IN  IF newlines = {} THEN i
        ELSE i - (CHOOSE j \in newlines : \A k \in newlines : k <= j)

\* C19: every token NextToken returns carries the line and column of its own
\* first character (for EOF_TOKEN, of the end of the input): line is 1 plus
\* the number of newlines before it, column restarts at 1 after a newline;
\* for every token kind, STRING included, and for tokens after a string.
C19_TokenPositions ==
    [][lexer.position <= Len(input) =>
         /\ tok'.line = LineOf(NextStart)
         /\ tok'.column = ColumnOf(NextStart)]_vars

\* ---------------------------------------------------------- literal claims
\* the LiteralValue nodes of an expression, left to right
RECURSIVE Literals(_)
Literals(expr) ==
    IF expr.node = "LiteralValue" THEN <<expr>>
    ELSE IF expr.node = "BinaryOp" THEN Literals(expr.left) \o Literals(expr.right)
    ELSE <<>>

\* the LiteralValue nodes of the SELECT statements returned, in source order
ReturnedLiterals ==
    Concat([s \in DOMAIN result.val |->
              Concat([i \in DOMAIN result.val[s].projections |->
                        Literals(result.val[s].projections[i])])
              \o (IF result.val[s].where = None THEN <<>>
                  ELSE Literals(result.val[s].where[1]))])

\* the NUMBER and STRING tokens of the buffer, in order
LiteralTokens == SelectSeq(tokens, LAMBDA t : t.type \in {"NUMBER", "STRING"})

\* C21: in the trees parse() returns, the LiteralValue nodes are, in source
\* order, those of the NUMBER and STRING tokens: a NUMBER with a dot is tagged
\* DOUBLE and holds a double, any other NUMBER is tagged INTEGER and holds an
\* int64_t, a STRING is tagged TEXT and holds a string equal to the token
\* text; no literal is tagged NULL or holds no payload.
C21_LiteralPayloadMatchesTag ==
    (Parsed /\ result.ok) =>
        /\ Len(ReturnedLiterals) = Len(LiteralTokens)
        /\ \A i \in DOMAIN ReturnedLiterals :
             LET l == ReturnedLiterals[i]
                 t == LiteralTokens[i]
             IN  /\ l.type # "NULL_TYPE"
                 /\ l.value.holds # "std::monostate"
                 /\ IF t.type = "STRING"
                    THEN /\ l.type = "TEXT"
                         /\ l.value.holds = "std::string"
                         /\ l.value.v = t.literal
                    ELSE IF "." \in Range(t.literal)
                    THEN l.type = "DOUBLE" /\ l.value.holds = "double"
                    ELSE l.type = "INTEGER" /\ l.value.holds = "int64_t"

\* SELECT 2. , 'ab' + 1 parsed: a DOUBLE, a TEXT and an INTEGER literal
C21_Witness ==
    /\ Parsed /\ result.ok
    /\ form.words = <<w_SELECT, w_2_dot, <<",">>, w_ab_quoted, <<"+">>, w_1>>
    /\ Len(ReturnedLiterals) = 3
    /\ ReturnedLiterals[1].type = "DOUBLE"
    /\ ReturnedLiterals[2].value.v = <<"a", "b">>
    /\ ReturnedLiterals[3].value.holds = "int64_t"

\* --------------------------------------------------------- operator claims
\* the number of BinaryOp nodes of an expression
RECURSIVE BinaryNodes(_)
BinaryNodes(expr) ==
    IF expr.node = "BinaryOp" THEN 1 + BinaryNodes(expr.left) + BinaryNodes(expr.right)
    ELSE 0

\* the operator symbols written in a text of OperatorForms
OperatorsWritten == [i \in 1..((Len(form.words) - 2) \div 2) |-> form.words[2 * i + 1]]

\* the binary operator each ranked symbol stands for
SymbolOp ==
    (<<"*">> :> "MUL") @@ (<<"/">> :> "DIV") @@ (<<"%">> :> "MOD")
    @@ (<<"+">> :> "PLUS") @@ (<<"-">> :> "MINUS") @@ (<<"=">> :> "EQ")
    @@ (<<"^">> :> "POW")

\* C22: operands joined by any of * / % + - = ^ parse to one expression with
\* a binary node for every operator written (x op y to the node op over x
\* and y), and no parse ends with an operator token consumed for which there
\* is no binary operator.
C22_SevenOperators ==
    Parsed =>
        /\ ReturnedOne
        /\ Len(TheStatement.projections) = 1
        /\ BinaryNodes(TheStatement.projections[1]) = Len(OperatorsWritten)
        /\ Len(OperatorsWritten) = 1 =>
              TheStatement.projections[1] =
                  BinaryOp(SymbolOp[OperatorsWritten[1]],
                           TreeOf(Leaf(form.words[2])), TreeOf(Leaf(form.words[4])))
        /\ result.err.what # "Unknown binary operator token"

\* ---------------------------------------------------- ILLEGAL token claims
HasIllegal == \E i \in DOMAIN tokens : tokens[i].type = "ILLEGAL"

\* C23: parse() over a buffer that holds an ILLEGAL token raises; it never
\* returns a statement list.
C23_IllegalAlwaysRaises ==
    (Parsed /\ HasIllegal) => ~result.ok

\* ALTER TABLE t ADD COLUMN c / : the ILLEGAL token is taken by the advance()
\* that reads the column type, and the statement is rejected
C23_Witness ==
    /\ Parsed /\ HasIllegal /\ ~result.ok
    /\ form.words = <<w_ALTER, w_TABLE, w_t, w_ADD, w_COLUMN, w_c, <<"/">>,
                      w_NOT, w_NULL>>
    /\ tokens[7].type = "ILLEGAL"
    /\ result.err.what = "Unknown data type"

\* ------------------------------------------------------------ CREATE claims
\* stmt with the options applied one by one in the order written
\* (options name the entries of written)
RECURSIVE ApplyOptions(_, _, _)
ApplyOptions(stmt, written, options) ==
    IF options = <<>> THEN stmt
    ELSE ApplyOptions([stmt EXCEPT ![written[Head(options)].field] =
                                       written[Head(options)].value],
                      written, Tail(options))

\* C24: CREATE ROLE r WITH option ... returns the role statement with every
\* option written applied in source order: a flag sets its own field,
\* PASSWORD 's' sets password without a CONNECTION LIMIT clause, CONNECTION
\* LIMIT [-]n sets conn_limit, and an option written after another option is
\* applied too.
C24_RoleOptions ==
    (Parsed /\ form.kind = "role") =>
        /\ result.ok
        /\ result.val = ApplyOptions([CreateRoleStmt EXCEPT !.role_name = w_r],
                                     RoleOptionsWritten, form.options)

\* the number of tokens of the statement of a form, not counting its ;
StatementTokens == Len(Words(form)) - (IF form.semicolon THEN 1 ELSE 0)

ExpectedIndex(f) ==
    [CreateIndexStmt EXCEPT
       !.index_name = w_i, !.table_name = w_t, !.unique = f.unique,
       !.concurrently = f.concurrently, !.if_not_exists = f.if_not_exists,
       !.only = f.only, !.method = IF f.using THEN Some(w_m) ELSE None,
       !.params = [k \in DOMAIN f.elements |->
                     [IndexElem EXCEPT !.name = Some(f.elements[k])]],
       !.where = IF f.where
                 THEN Some(TreeOf(Node("EQ", Leaf(w_a), Leaf(w_1)))) ELSE None,
       !.tablespace = IF f.tablespace THEN Some(w_s) ELSE None]

\* C25: CREATE INDEX with the element list closed by ) returns the index
\* statement with one element per name written, in source order, and leaves
\* the cursor on the first token after the statement; with the ) missing it
\* raises.
C25_IndexListClosed ==
    (Parsed /\ form.kind = "index") =>
        IF form.closed
        THEN /\ result.ok
             /\ result.val = ExpectedIndex(form)
             /\ position = StatementTokens
        ELSE ~result.ok

\* C26: CREATE DATABASE d without a list returns with the defaults; with a
\* list it requires the closing ) and returns with each option written
\* stored in its field and the other fields at their defaults.
C26_DatabaseOptions ==
    (Parsed /\ form.kind = "database") =>
        IF form.options # <<>> /\ ~form.closed THEN ~result.ok
        ELSE /\ result.ok
             /\ result.val =
                  ApplyOptions([CreateDatabaseStmt EXCEPT
                                  !.name = w_d, !.if_not_exists = form.if_not_exists],
                               DatabaseOptionsWritten, form.options)

\* the columns written after UPDATE OF in the events of a form
UpdateOfWritten(f) ==
    Concat([k \in DOMAIN f.events |-> TriggerEventsWritten[f.events[k]].of])

\* C27: CREATE TRIGGER returns with update_of_columns holding the columns
\* written after UPDATE OF, in source order, and absent when no UPDATE OF is
\* written; nothing is appended to the field while it is absent.
C27_UpdateOfColumns ==
    (Parsed /\ form.kind = "trigger") =>
        /\ result.ok
        /\ result.val.events =
             [k \in DOMAIN form.events |-> TriggerEventsWritten[form.events[k]].event]
        /\ result.val.update_of_columns =
             IF UpdateOfWritten(form) = <<>> THEN None ELSE Some(UpdateOfWritten(form))

\* the cursor positions a Parser over the token buffer can be at
Cursors == 0..Len(tokens)

\* an iteration of the loop of parse() that starts at p and does not raise
\* ends further on
ParseLoopAdvances ==
    \A p \in Cursors :
        LET s == parse_statement(tokens, p)
        IN  (~is_end(tokens, p) /\ s.ok) =>
                /\ match(tokens, s.pos, "SEMICOLON").pos > p
                /\ match(tokens, s.pos, "SEMICOLON").pos \in Cursors

\* the same of the loops of parse_create_table_stmt: the first over the table
\* elements, the second over the table constraints
TableLoopsAdvance ==
    \A p \in Cursors :
        /\ LET e == TableElement(tokens, p, CreateTableStmt)
           IN  (current(tokens, p).type \notin {"RPAREN", "EOF_TOKEN"} /\ e.ok) =>
                   e.pos > p /\ e.pos \in Cursors
        /\ LET c == parse_table_constraint(tokens, p)
           IN  (current(tokens, p).type # "RPAREN" /\ c.ok) =>
                   /\ match(tokens, c.pos, "COMMA").pos > p
                   /\ match(tokens, c.pos, "COMMA").pos \in Cursors

\* the same of the loop of parse_create_sequence_stmt
SequenceLoopAdvances ==
    \A p \in Cursors :
        LET s == SequenceOption(tokens, p, CreateSequenceStmt)
        IN  (current(tokens, p).type \notin {"SEMICOLON", "EOF_TOKEN"} /\ s.ok) =>
                s.pos > p /\ s.pos \in Cursors

\* the same of the option loop of parse_create_role_stmt, of the element loop
\* of parse_create_schema_stmt and of the constraint loops of parse_column_def
\* and of ADD COLUMN / ADD CONSTRAINT
OptionLoopsAdvance ==
    \A p \in Cursors :
        LET type == current(tokens, p).type
            Advanced(r) == r.ok => (r.pos > p /\ r.pos \in Cursors)
        IN  /\ type \notin {"SEMICOLON", "EOF_TOKEN"} =>
                 /\ Advanced(RoleOption(tokens, p, CreateRoleStmt))
                 /\ \A ub \in UndefinedOutcomes :
                      Advanced(SchemaElement(tokens, p, CreateSchemaStmt, ub))
            /\ type \notin {"COMMA", "RPAREN"} =>
                 Advanced(ColumnConstraint(tokens, p, ColumnDef))
            /\ type \notin {"COMMA", "SEMICOLON", "EOF_TOKEN"} =>
                 Advanced(AddConstraint(tokens, p,
                            [not_null |-> FALSE, unique |-> FALSE, primary_key |-> FALSE],
                            "Unknown constraint"))

\* the same of the comma-separated lists: an item is a token other than the
\* end of input that is expected, an expression or an index element
ListLoopsAdvance ==
    \A p \in Cursors :
        LET Advanced(r) == r.ok => (r.pos > p /\ r.pos \in Cursors)
        IN  /\ ~is_end(tokens, p) =>
                 Advanced(expect(tokens, p, current(tokens, p).type, ""))
            /\ Advanced(parse_expression(tokens, p, 0))
            /\ Advanced(IndexElement(tokens, p))

\* the same of the loop of parse_expression, entered at any minimum
\* precedence with the cursor on an operator that binds tighter
ExpressionLoopAdvances ==
    \A p \in Cursors : \A precedence \in 0..5 :
        LET token == current(tokens, p)
            right == parse_expression(tokens, advance(tokens, p).pos,
                                      get_precedence(token.type))
        IN  (/\ get_precedence(token.type) > precedence
             /\ token.type \in DOMAIN token_to_binop
             /\ right.ok) =>
                right.pos > p /\ right.pos \in Cursors

\* C28: parse() terminates on every token buffer. Every iteration of its
\* loop, of the loops of parse_create_table_stmt, of the option loops of
\* CREATE SEQUENCE, ROLE and SCHEMA, of the constraint loops, of the
\* comma-separated lists and of the loop of parse_expression either moves the
\* cursor forward within the buffer or raises; parse() once called returns or
\* raises, with what the loop written as one call returns.
C28_ParseTerminates ==
    /\ [][phase' = "parsing" => position' > position]_vars
    /\ [](phase # "lexer" =>
            /\ ParseLoopAdvances
            /\ TableLoopsAdvance
            /\ SequenceLoopAdvances
            /\ OptionLoopsAdvance
            /\ ListLoopsAdvance
            /\ ExpressionLoopAdvances)
    /\ [](Parsed => result = parse(tokens, 0))
    /\ (phase = "parser") ~> Parsed

\* three statements, each ending an iteration further on, and parse() returned
C28_Witness ==
    /\ Parsed
    /\ form.kind = "batch"
    /\ Len(form.statements) = 3
    /\ result.ok
    /\ Len(result.val) = 3
    /\ position = Len(tokens) - 1

\* the decimal digits of a natural number
RECURSIVE Decimal(_)
Decimal(n) ==
    IF n < 10 THEN <<DigitChars[n + 1]>>
    ELSE Decimal(n \div 10) \o <<DigitChars[(n % 10) + 1]>>

\* v is the number written in form f, with its sign
IsWritten(v, f) ==
    IF f.negative THEN v < 0 /\ Decimal(-v) = f.number
    ELSE v >= 0 /\ Decimal(v) = f.number

\* the field a numeric option of CREATE SEQUENCE is stored in
IntegerOptionField(stmt, option) ==
    CASE option = "INCREMENT" -> Some(stmt.increment_by)
      [] option = "START" -> Some(stmt.start_value)
      [] option = "MINVALUE" -> stmt.min_value
      [] option = "MAXVALUE" -> stmt.max_value
      [] option = "CACHE" -> stmt.cache_size

\* C29: an integer of up to 2^63 - 1 written as an operand comes back from
\* parse() as an INTEGER literal holding exactly that value, and written as
\* the number of a CREATE SEQUENCE option it is stored in the option's field
\* with its sign; values above 2^31 - 1 are neither rejected nor changed.
C29_Int64Range ==
    (Parsed /\ form.kind = "integer") =>
        IF form.option = "SELECT"
        THEN /\ result.ok
             /\ Len(ReturnedLiterals) = 1
             /\ ReturnedLiterals[1].type = "INTEGER"
             /\ ReturnedLiterals[1].value.holds = "int64_t"
             /\ IsWritten(ReturnedLiterals[1].value.v, form)
        ELSE call.op = "parse_create_stmt" =>
                /\ result.ok
                /\ IntegerOptionField(result.val, form.option) # None
                /\ IsWritten(IntegerOptionField(result.val, form.option)[1], form)

\* ---------------------------------------------------------- Catalog claims
\* the statements of the history that name n, in order
Naming(n) == SelectSeq(history, LAMBDA stmt : stmt.table_name = n)

\* C30: create_table with a free name stores the name and the columns of the
\* statement and returns true; with a name that exists it leaves tables as it
\* is, returns true when if_not_exists is set and raises "already exists"
\* otherwise. After any calls, get_table(n) returns the columns of the first
\* create_table statement that named n, and nothing for a name never created.
C30_FirstWriterWins ==
    /\ [][call'.op = "create_table" =>
            LET stmt == call'.arg
            IN  IF stmt.table_name \notin DOMAIN tables
                THEN /\ result'.ok /\ result'.val = TRUE
                     /\ DOMAIN tables' = DOMAIN tables \cup {stmt.table_name}
                     /\ tables'[stmt.table_name].name = stmt.table_name
                     /\ tables'[stmt.table_name].columns = stmt.columns
                     /\ \A n \in DOMAIN tables : tables'[n] = tables[n]
                ELSE /\ tables' = tables
                     /\ IF stmt.if_not_exists THEN result'.ok /\ result'.val = TRUE
                        ELSE /\ ~result'.ok
                             /\ result'.err.what =
                                  <<"Table ", stmt.table_name, " already exists">>]_vars
    /\ [](call.op = "get_table" =>
            /\ result.ok
            /\ IF Naming(call.arg) = <<>> THEN result.val = None
               ELSE /\ result.val # None
                    /\ result.val[1].name = call.arg
                    /\ result.val[1].columns = Naming(call.arg)[1].columns)

\* t created with one column, created again with two columns and
\* if_not_exists, then looked up: the one column of the first call
C30_Witness ==
    /\ call = Call("get_table", <<"t">>)
    /\ Len(Naming(<<"t">>)) >= 2
    /\ Naming(<<"t">>)[2].if_not_exists
    /\ Len(Naming(<<"t">>)[1].columns) = 1
    /\ Len(Naming(<<"t">>)[2].columns) = 2
    /\ result.ok
    /\ Len(result.val[1].columns) = 1

====
